---------------------------- MODULE Spec2Model ----------------------------
(***************************************************************************)
(* Bank statement standardization engine (bank_transformer.py) and the    *)
(* batch endpoint that drives it (app.py).                                 *)
(*                                                                         *)
(* Text is modelled by TLA+ strings, character by character.  A number is  *)
(* a sign and a magnitude in thousandths (1234.56 is mag 1234560), so that *)
(* the two-decimal formatting of an amount really rounds.  Python's -0.0   *)
(* is neg = TRUE, mag = 0.                                                 *)
(***************************************************************************)
EXTENDS Integers, Sequences, FiniteSets, TLC

VARIABLES
    a_in,        \* amount functions: the cell handed to them
    a_parsed,    \* _parse_amount(a_in)
    a_std,       \* _standardize_amount(a_in)
    a_std2,      \* _standardize_amount(a_std)
    a_pc,        \* which of the amount functions have run
    d_in,        \* date function: the cell handed to it
    d_target,    \* the target_format handed to it
    d_out,       \* _standardize_date(d_in, d_target)
    d_out2,      \* _standardize_date(d_out, d_target)
    d_pc,        \* how often the date function has run
    s_mapping,   \* standardizer: format_info['mapping']
    s_txn,       \* the raw transaction
    s_options,   \* the options dict
    s_applied,   \* standard_transaction after the mapping loop
    s_filled,    \* standard_transaction after the backfill loop
    s_out,       \* standard_transaction after _handle_debit_credit_logic
    s_out2,      \* standard_transaction after a second _handle_debit_credit_logic
    s_pc,        \* where the loop body of _standardize_transactions stands
    bank_formats,    \* self.bank_formats
    tr_file,         \* transform_statement: the file at file_path
    tr_options,      \* the options dict
    tr_raw_data,     \* raw_data, the grid returned by _read_file
    tr_format_info,  \* format_info, the profile bound by _detect_format
    tr_account_info, \* account_info
    tr_transactions, \* transactions, the raw transactions
    tr_standardized, \* standardized_transactions
    tr_error,        \* str(e) of the exception being handled
    tr_result,       \* the dict transform_statement returns
    clock,           \* datetime.now()
    tr_pc,           \* where transform_statement stands
    tr_output,       \* the workbook generate_standardized_file wrote for tr_result
    b_files,     \* batch endpoint: request.files.getlist('files')
    b_options,   \* the options dict built from the form
    b_index,     \* how many files the loop has handled
    b_results,   \* results
    b_folder,    \* the files in UPLOAD_FOLDER: name -> content
    b_uuid,      \* how many uuid4() values were drawn
    b_response,  \* the JSON body returned
    b_pc,        \* where transform_statements stands
    b_form,      \* request.form
    b_preview    \* the JSON body preview_file returned last

amtVars == <<a_in, a_parsed, a_std, a_std2, a_pc>>
dateVars == <<d_in, d_target, d_out, d_out2, d_pc>>
stdVars == <<s_mapping, s_txn, s_options, s_applied, s_filled, s_out, s_out2, s_pc>>
pipeVars == <<bank_formats, tr_file, tr_options, tr_raw_data, tr_format_info,
              tr_account_info, tr_transactions, tr_standardized, tr_error, tr_result,
              clock, tr_pc, tr_output>>
batchVars == <<b_files, b_options, b_index, b_results, b_folder, b_uuid, b_response, b_pc,
               b_form, b_preview>>
vars == <<amtVars, dateVars, stdVars, pipeVars, batchVars>>

-----------------------------------------------------------------------------
(* Bounds of the model *)

\* longest text enumerated over AmtAlphabet as an amount input
MaxAmtLen == 3

-----------------------------------------------------------------------------
(* Characters and strings *)

UpperAlpha == "ABCDEFGHIJKLMNOPQRSTUVWXYZ"
LowerAlpha == "abcdefghijklmnopqrstuvwxyz"
Digits == "0123456789"

CharAt(s, i) == SubSeq(s, i, i)

\* TRUE iff the one-character string c occurs in the string set
CharIn(c, set) == \E i \in 1..Len(set) : CharAt(set, i) = c

IndexIn(c, set) == CHOOSE i \in 1..Len(set) : CharAt(set, i) = c

\* the characters of a string, as a set
CharSet(s) == {CharAt(s, i) : i \in 1..Len(s)}

DigitSet == CharSet(Digits)
UpperSet == CharSet(UpperAlpha)
LowerSet == CharSet(LowerAlpha)

IsDigit(c) == c \in DigitSet

DigitVal(c) == IndexIn(c, Digits) - 1

\* the lower-case letter of each upper-case letter
LowerOf == [c \in UpperSet |-> CharAt(LowerAlpha, IndexIn(c, UpperAlpha))]

\* str.lower() on one character
LowerChar(c) == IF c \in UpperSet THEN LowerOf[c] ELSE c

RECURSIVE Lower(_)
\* str.lower(), one half of the text after the other
Lower(s) ==
    IF Len(s) <= 1 THEN LowerChar(s)
    ELSE Lower(SubSeq(s, 1, Len(s) \div 2)) \o Lower(SubSeq(s, Len(s) \div 2 + 1, Len(s)))

\* Python's `sub in s`
Contains(s, sub) ==
    \E i \in 1..(Len(s) - Len(sub) + 1) : SubSeq(s, i, i + Len(sub) - 1) = sub

RECURSIVE RemoveChars(_, _)
\* re.sub('[<set>]', '', s)
RemoveChars(s, set) ==
    IF s = "" THEN ""
    ELSE IF Len(s) = 1 THEN (IF CharIn(s, set) THEN "" ELSE s)
    ELSE RemoveChars(SubSeq(s, 1, Len(s) \div 2), set)
         \o RemoveChars(SubSeq(s, Len(s) \div 2 + 1, Len(s)), set)

RECURSIVE NatToStr(_)
\* str() of a non-negative integer
NatToStr(n) == IF n < 10 THEN CharAt(Digits, n + 1)
               ELSE NatToStr(n \div 10) \o CharAt(Digits, (n % 10) + 1)

RECURSIVE StrToNat(_)
\* the value of a string of decimal digits ("" is 0)
StrToNat(s) == IF s = "" THEN 0
               ELSE StrToNat(SubSeq(s, 1, Len(s) - 1)) * 10 + DigitVal(CharAt(s, Len(s)))

AllDigits(s) == \A i \in 1..Len(s) : IsDigit(CharAt(s, i))

-----------------------------------------------------------------------------
(* Cells and numbers *)

\* A cell of the grid, or a Python value: k is its kind.
\*   "none"  None                       "str"   text s
\*   "int"   int, "float" float: (-1)^neg * mag / 1000
\*   "nan"   float('nan')               "inf"   float('inf') with sign neg
\*   "dt"    datetime; mag is the day, s is str() of it
Val(k, neg, mag, s) == [k |-> k, neg |-> neg, mag |-> mag, s |-> s]

CNone == Val("none", FALSE, 0, "")
CNaN == Val("nan", FALSE, 0, "")
CStr(s) == Val("str", FALSE, 0, s)
CInt(neg, mag) == Val("int", neg, mag, "")
CFloat(neg, mag) == Val("float", neg, mag, "")
CInf(neg) == Val("inf", neg, 0, "")
CDate(day, s) == Val("dt", FALSE, day, s)

\* isinstance(v, (int, float))
IsNumeric(v) == v.k \in {"int", "float", "nan", "inf"}

\* isinstance(v, str)
IsStr(v) == v.k = "str"

\* float(v) of a numeric value
ToFloat(v) == IF v.k = "int" THEN CFloat(v.neg, v.mag) ELSE v

\* v < 0 (every comparison with NaN is False)
LtZero(v) == \/ v.k \in {"int", "float"} /\ v.neg /\ v.mag > 0
             \/ v.k = "inf" /\ v.neg

\* v != 0 (NaN != 0 is True)
NeZero(v) == IF v.k \in {"int", "float"} THEN v.mag > 0 ELSE TRUE

\* abs(v)
Abs(v) == [v EXCEPT !.neg = FALSE]

\* a variant of the formatting that does not pad the fraction to two digits
Format2fNoPad(v) ==
    IF v.k = "nan" THEN "nan"
    ELSE IF v.k = "inf" THEN (IF v.neg THEN "-inf" ELSE "inf")
    ELSE LET cents == (v.mag + 5) \div 10
         IN (IF v.neg THEN "-" ELSE "") \o NatToStr(cents \div 100) \o "."
            \o NatToStr(cents % 100)

\* f"{v:.2f}" of a float.  The magnitude is rounded to hundredths; a
\* magnitude exactly halfway (thousandths digit 5) depends on the binary
\* value of the float, and the inputs of the model leave those out.
Format2f(v) ==
    IF v.k = "nan" THEN "nan"
    ELSE IF v.k = "inf" THEN (IF v.neg THEN "-inf" ELSE "inf")
    ELSE LET cents == (v.mag + 5) \div 10
             frac == cents % 100
         IN (IF v.neg THEN "-" ELSE "") \o NatToStr(cents \div 100) \o "."
            \o NatToStr(frac \div 10) \o NatToStr(frac % 10)

\* The result of float(s), or NoFloat when float(s) raises ValueError.
NoFloat == Val("error", FALSE, 0, "ValueError")

\* float() of an unsigned body: digits with at most one point and at
\* least one digit, or nan / inf / infinity in any case.  Fraction digits
\* past the third are dropped (the inputs of the model have at most three);
\* exponents and digit-group underscores are not modelled and no input of
\* the model has them.
FloatBody(neg, b) ==
    LET lb == Lower(b)
        dots == {i \in 1..Len(b) : CharAt(b, i) = "."}
    IN IF lb = "nan" THEN CNaN
       ELSE IF lb \in {"inf", "infinity"} THEN CInf(neg)
       ELSE IF Cardinality(dots) > 1 THEN NoFloat
       ELSE LET p == IF dots = {} THEN Len(b) + 1 ELSE CHOOSE i \in dots : TRUE
                ip == SubSeq(b, 1, p - 1)
                fp == SubSeq(b, p + 1, Len(b))
                f3 == SubSeq(fp \o "000", 1, 3)
            IN IF AllDigits(ip) /\ AllDigits(fp) /\ Len(ip) + Len(fp) > 0
               THEN CFloat(neg, StrToNat(ip) * 1000 + StrToNat(f3))
               ELSE NoFloat

\* float(s) for text s
PyFloat(s) ==
    IF s = "" THEN NoFloat
    ELSE IF Head(s) = "-" THEN FloatBody(TRUE, Tail(s))
    ELSE IF Head(s) = "+" THEN FloatBody(FALSE, Tail(s))
    ELSE FloatBody(FALSE, s)

-----------------------------------------------------------------------------
(* Amounts: _parse_amount, _standardize_amount, _is_amount *)

\* the characters of the class [₦$£€,\s()]
AmountNoise == "₦$£€, \t()"

\* a variant of _parse_amount whose character class lacks the parentheses
ParseAmountNoParens(value) ==
    IF IsNumeric(value) THEN ToFloat(value)
    ELSE IF ~IsStr(value) THEN CFloat(FALSE, 0)
    ELSE LET r == PyFloat(RemoveChars(value.s, "₦$£€, \t"))
         IN IF r = NoFloat THEN CFloat(FALSE, 0) ELSE r

\* _parse_amount
parse_amount(value) ==
    IF IsNumeric(value) THEN ToFloat(value)
    ELSE IF ~IsStr(value) THEN CFloat(FALSE, 0)
    ELSE LET r == PyFloat(RemoveChars(value.s, AmountNoise))
         IN IF r = NoFloat THEN CFloat(FALSE, 0) ELSE r

\* _standardize_amount (the result is text; parsed is never None)
standardize_amount(amount) ==
    IF amount = CStr("") \/ amount = CNone THEN ""
    ELSE Format2f(parse_amount(amount))

\* _is_amount
is_amount(value) ==
    IF IsNumeric(value) THEN NeZero(value)
    ELSE IF IsStr(value)
         THEN LET r == PyFloat(RemoveChars(value.s, AmountNoise))
              IN r # NoFloat /\ NeZero(r)
         ELSE FALSE

-----------------------------------------------------------------------------
(* str() of a value *)

\* the fraction digits of repr(float): thousandths without trailing zeros
FracRepr(m) ==
    LET d1 == m \div 100
        d2 == (m \div 10) % 10
        d3 == m % 10
    IN IF d3 # 0 THEN NatToStr(d1) \o NatToStr(d2) \o NatToStr(d3)
       ELSE IF d2 # 0 THEN NatToStr(d1) \o NatToStr(d2)
       ELSE NatToStr(d1)

\* str(v): None is 'None', an int its digits, a float its shortest repr
\* (the magnitudes of the model are below 1e16, where repr is positional)
PyStr(v) ==
    CASE v.k = "none" -> "None"
      [] v.k = "str" -> v.s
      [] v.k = "dt" -> v.s
      [] v.k = "nan" -> "nan"
      [] v.k = "inf" -> (IF v.neg THEN "-inf" ELSE "inf")
      [] v.k = "int" -> (IF v.neg /\ v.mag > 0 THEN "-" ELSE "") \o NatToStr(v.mag \div 1000)
      [] v.k = "float" -> (IF v.neg THEN "-" ELSE "") \o NatToStr(v.mag \div 1000)
                          \o "." \o FracRepr(v.mag % 1000)

\* bool(v): None, '', 0 and 0.0 are falsy; NaN and a datetime are truthy
Truthy(v) ==
    CASE v.k = "none" -> FALSE
      [] v.k = "str" -> v.s # ""
      [] v.k \in {"int", "float"} -> v.mag # 0
      [] OTHER -> TRUE

-----------------------------------------------------------------------------
(* Calendar: days are counted from 1899-12-30 (day 0), the spreadsheet epoch *)

IsLeap(y) == (y % 4 = 0 /\ y % 100 # 0) \/ y % 400 = 0

DaysInMonth(y, m) ==
    IF m = 2 THEN (IF IsLeap(y) THEN 29 ELSE 28)
    ELSE IF m \in {4, 6, 9, 11} THEN 30 ELSE 31

\* days from 0001-01-01 to y-m-d (proleptic Gregorian), as date.toordinal() - 1
RECURSIVE DaysBeforeMonth(_, _)
DaysBeforeMonth(y, m) == IF m = 1 THEN 0 ELSE DaysBeforeMonth(y, m - 1) + DaysInMonth(y, m - 1)

Ordinal(y, m, d) ==
    LET py == y - 1
    IN py * 365 + py \div 4 - py \div 100 + py \div 400 + DaysBeforeMonth(y, m) + d - 1

\* date(1899, 12, 30).toordinal() - 1
EpochOrdinal == Ordinal(1899, 12, 30)

\* the calendar date of an ordinal: [y, m, d]
DateOfOrdinal(n) ==
    LET y == CHOOSE yy \in (n \div 366)..(n \div 365 + 1) :
                 Ordinal(yy, 1, 1) <= n /\ n < Ordinal(yy + 1, 1, 1)
        m == CHOOSE mm \in 1..12 :
                 /\ Ordinal(y, mm, 1) <= n
                 /\ n < Ordinal(y, mm, 1) + DaysInMonth(y, mm)
    IN [y |-> y, m |-> m, d |-> n - Ordinal(y, m, 1) + 1]

ValidDate(y, m, d) == y \in 1..9999 /\ m \in 1..12 /\ d \in 1..DaysInMonth(y, m)

\* %02d, %04d: n in at least `width` digits
Pad(n, width) ==
    (IF Len(NatToStr(n)) < width THEN SubSeq("000", 1, width - Len(NatToStr(n))) ELSE "")
    \o NatToStr(n)

\* date_obj.strftime(fmt) for the three target shapes, DD/MM/YYYY otherwise
Strftime(dt, target_format) ==
    IF target_format = "MM/DD/YYYY" THEN Pad(dt.m, 2) \o "/" \o Pad(dt.d, 2) \o "/" \o Pad(dt.y, 4)
    ELSE IF target_format = "YYYY-MM-DD" THEN Pad(dt.y, 4) \o "-" \o Pad(dt.m, 2) \o "-" \o Pad(dt.d, 2)
    ELSE Pad(dt.d, 2) \o "/" \o Pad(dt.m, 2) \o "/" \o Pad(dt.y, 4)

-----------------------------------------------------------------------------
(* Dates: _is_date, _standardize_date *)

\* the positions of the separators / and - of a text
SepPositions(s) == {i \in 1..Len(s) : CharAt(s, i) \in {"/", "-"}}

\* a text split at its two separators: <<first, second, third>>, or << >>
\* when it is not three non-empty digit groups with two separators
DateGroups(s) ==
    LET seps == SepPositions(s)
    IN IF Cardinality(seps) # 2 THEN << >>
       ELSE LET p == CHOOSE i \in seps : \A j \in seps : i <= j
                q == CHOOSE i \in seps : \A j \in seps : j <= i
                g1 == SubSeq(s, 1, p - 1)
                g2 == SubSeq(s, p + 1, q - 1)
                g3 == SubSeq(s, q + 1, Len(s))
            IN IF /\ g1 # "" /\ g2 # "" /\ g3 # ""
                  /\ AllDigits(g1) /\ AllDigits(g2) /\ AllDigits(g3)
               THEN <<g1, g2, g3>> ELSE << >>

\* re.match of one of self.date_patterns
MatchesDatePattern(s) ==
    LET g == DateGroups(s)
    IN /\ g # << >>
       /\ \/ Len(g[1]) \in {1, 2} /\ Len(g[2]) \in {1, 2} /\ Len(g[3]) = 4
          \/ Len(g[1]) = 4 /\ Len(g[2]) \in {1, 2} /\ Len(g[3]) \in {1, 2}
          \/ Len(g[1]) \in {1, 2} /\ Len(g[2]) \in {1, 2} /\ Len(g[3]) = 2

\* _is_date
is_date(value) ==
    IF value.k \in {"int", "float"} /\ ~value.neg /\ value.mag > 1000000 /\ value.mag < 100000000
    THEN TRUE
    ELSE IF IsStr(value) THEN MatchesDatePattern(value.s)
    ELSE value.k = "dt"

\* pd.NaT
NaT == [y |-> 0, m |-> 0, d |-> 0]

\* pd.to_datetime(text, errors='coerce') for the texts of the model: three
\* digit groups with / or - are read year first when the first group has
\* four digits, otherwise month first, and day first when that is no
\* calendar date; a two-digit year is 20yy below 70 and 19yy from 70.
\* Every other text of the model (no digit groups) is NaT.
ToDatetime(s) ==
    LET g == DateGroups(s)
    IN IF g = << >> \/ ~MatchesDatePattern(s) THEN NaT
       ELSE LET a == StrToNat(g[1])
                b == StrToNat(g[2])
                c == StrToNat(g[3])
                yy == IF Len(g[3]) = 2 THEN (IF c < 70 THEN 2000 + c ELSE 1900 + c) ELSE c
            IN IF Len(g[1]) = 4
               THEN (IF ValidDate(a, b, c) THEN [y |-> a, m |-> b, d |-> c] ELSE NaT)
               ELSE IF ValidDate(yy, a, b) THEN [y |-> yy, m |-> a, d |-> b]
               ELSE IF ValidDate(yy, b, a) THEN [y |-> yy, m |-> b, d |-> a]
               ELSE NaT

\* the largest whole number of days a pd.Timedelta holds (2^63 - 1 ns)
MaxTimedeltaDays == 106751

\* _standardize_date; the result is text
standardize_date(date_value, target_format) ==
    IF ~Truthy(date_value) THEN ""
    ELSE IF date_value.k \in {"int", "float"} /\ ~date_value.neg /\ date_value.mag > 1000000
    THEN \* excel_epoch + pd.Timedelta(days=date_value - 2); out of bounds raises
         IF date_value.mag \div 1000 - 2 > MaxTimedeltaDays THEN PyStr(date_value)
         ELSE Strftime(DateOfOrdinal(EpochOrdinal + date_value.mag \div 1000), target_format)
    ELSE IF IsStr(date_value)
    THEN LET date_obj == ToDatetime(date_value.s)
         IN IF date_obj = NaT THEN PyStr(date_value) ELSE Strftime(date_obj, target_format)
    ELSE IF date_value.k = "dt"
    THEN Strftime(DateOfOrdinal(EpochOrdinal + date_value.mag), target_format)
    ELSE PyStr(date_value)

-----------------------------------------------------------------------------
(* Python dicts and lists *)

\* {}: a dict is a function from its keys
EmptyDict == [x \in {} |-> CNone]

\* d[k] = v
DictSet(d, k, v) == [x \in DOMAIN d \cup {k} |-> IF x = k THEN v ELSE d[x]]

\* a dict whose order of insertion matters is a sequence of <<key, value>>
RECURSIVE PairsPut(_, _, _)
\* d[k] = v on a sequence of pairs: a key already there keeps its place
PairsPut(ps, k, v) ==
    IF ps = << >> THEN << <<k, v>> >>
    ELSE IF Head(ps)[1] = k THEN << <<k, v>> >> \o Tail(ps)
    ELSE <<Head(ps)>> \o PairsPut(Tail(ps), k, v)

RECURSIVE JoinSpace(_)
\* ' '.join(strings)
JoinSpace(strs) ==
    IF strs = << >> THEN ""
    ELSE IF Len(strs) = 1 THEN strs[1]
    ELSE JoinSpace(SubSeq(strs, 1, Len(strs) \div 2)) \o " "
         \o JoinSpace(SubSeq(strs, Len(strs) \div 2 + 1, Len(strs)))

RECURSIVE RowStrings(_)
\* [str(cell) for cell in row if cell is not None]
RowStrings(row) ==
    IF row = << >> THEN << >>
    ELSE (IF Head(row) = CNone THEN << >> ELSE <<PyStr(Head(row))>>) \o RowStrings(Tail(row))

RECURSIVE GridStrings(_)
\* [str(cell) for row in rows for cell in row if cell is not None]
GridStrings(rows) ==
    IF rows = << >> THEN << >> ELSE RowStrings(Head(rows)) \o GridStrings(Tail(rows))

\* rows[:n]
FirstRows(rows, n) == SubSeq(rows, 1, IF Len(rows) < n THEN Len(rows) ELSE n)

-----------------------------------------------------------------------------
(* The format registry: _initialize_bank_formats *)

\* self.standard_headers
standard_headers == <<"Tran Date", "Value Date", "Ref. No", "Transaction Details",
                      "Debit", "Credit", "Balance">>

FcmbMapping == << <<"Transaction Date", "Tran Date">>,
                  <<"Description", "Transaction Details">>,
                  <<"Value Date", "Value Date">>,
                  <<"Withdrawls", "Debit">>,
                  <<"Deposits", "Credit">>,
                  <<"Balance", "Balance">>,
                  <<"Instrument Code", "Ref. No">> >>

GtbMapping == << <<"TRA DATE", "Tran Date">>,
                 <<"REMARKS", "Transaction Details">>,
                 <<"NUBAN", "Ref. No">>,
                 <<"DEBIT", "Debit">>,
                 <<"CREDIT", "Credit">>,
                 <<"CRNT BAL", "Balance">> >>

\* the dict of profiles in its order of definition: <<key, profile>>
InitialBankFormats ==
    << <<"FCMB_FORMAT_1",
         [name |-> "FCMB Statement Format 1",
          identifiers |-> <<"1021040520", "STATEMENT OF ACCOUNT">>,
          header_row |-> 16,
          account_info_rows |-> <<3, 4, 5, 6, 7, 8, 12, 13, 14>>,
          mapping |-> FcmbMapping]>>,
       <<"GTB_ODS_FORMAT",
         [name |-> "GTB ODS Statement Format",
          identifiers |-> <<"TRA DATE", "REMARKS", "NUBAN">>,
          header_row |-> 2,
          account_info_rows |-> <<0, 1>>,
          mapping |-> GtbMapping]>>,
       <<"GENERIC",
         [name |-> "Generic Bank Format",
          identifiers |-> << >>,
          header_row |-> "auto-detect",
          mapping |-> << >>]>> >>

-----------------------------------------------------------------------------
(* Format detection: _detect_format, _detect_generic_format *)

common_headers == <<"date", "transaction", "description", "narration", "remarks",
                    "debit", "credit", "withdrawal", "deposit", "balance", "amount">>

\* any(word in text for word in words)
ContainsAny(text, words) == \E i \in 1..Len(words) : Contains(text, words[i])

\* cell and isinstance(cell, str) and any(header in str(cell).lower() ...)
IsHeaderCell(cell) ==
    Truthy(cell) /\ IsStr(cell) /\ ContainsAny(Lower(cell.s), common_headers)

\* header_count of one row
HeaderCount(row) == Cardinality({j \in 1..Len(row) : IsHeaderCell(row[j])})

\* a variant of the rules with the 'balance' rule before the others
GenericFieldBalanceFirst(cell_lower) ==
    IF Contains(cell_lower, "date") /\ ~Contains(cell_lower, "value") THEN "Tran Date"
    ELSE IF Contains(cell_lower, "value") /\ Contains(cell_lower, "date") THEN "Value Date"
    ELSE IF Contains(cell_lower, "balance") THEN "Balance"
    ELSE IF ContainsAny(cell_lower, <<"description", "narration", "remarks">>)
    THEN "Transaction Details"
    ELSE IF ContainsAny(cell_lower, <<"debit", "withdrawal">>) THEN "Debit"
    ELSE IF ContainsAny(cell_lower, <<"credit", "deposit">>) THEN "Credit"
    ELSE IF ContainsAny(cell_lower, <<"reference", "ref">>) THEN "Ref. No"
    ELSE ""

\* the canonical field of one header cell, or "" when no rule matches
GenericField(cell_lower) ==
    IF Contains(cell_lower, "date") /\ ~Contains(cell_lower, "value") THEN "Tran Date"
    ELSE IF Contains(cell_lower, "value") /\ Contains(cell_lower, "date") THEN "Value Date"
    ELSE IF ContainsAny(cell_lower, <<"description", "narration", "remarks">>)
    THEN "Transaction Details"
    ELSE IF ContainsAny(cell_lower, <<"debit", "withdrawal">>) THEN "Debit"
    ELSE IF ContainsAny(cell_lower, <<"credit", "deposit">>) THEN "Credit"
    ELSE IF Contains(cell_lower, "balance") THEN "Balance"
    ELSE IF ContainsAny(cell_lower, <<"reference", "ref">>) THEN "Ref. No"
    ELSE ""

RECURSIVE GenericMapping(_, _)
\* the mapping built from the header row, cell by cell
GenericMapping(row, mapping) ==
    IF row = << >> THEN mapping
    ELSE LET cell == Head(row)
             field == IF Truthy(cell) /\ IsStr(cell) THEN GenericField(Lower(cell.s)) ELSE ""
         IN GenericMapping(Tail(row),
                           IF field = "" THEN mapping ELSE PairsPut(mapping, cell.s, field))

RECURSIVE GenericHeaderRowLast(_, _)
\* a variant of the search that goes on after a row with 4 header cells and
\* keeps the last such row (no break)
GenericHeaderRowLast(raw_data, i) ==
    IF i >= Len(raw_data) \/ i >= 25 THEN -1
    ELSE IF GenericHeaderRowLast(raw_data, i + 1) # -1
    THEN GenericHeaderRowLast(raw_data, i + 1)
    ELSE IF raw_data[i + 1] # << >> /\ HeaderCount(raw_data[i + 1]) >= 4 THEN i
    ELSE -1

RECURSIVE GenericHeaderRow(_, _)
\* the index of the first row from i on, among rows 0..24, with at least 4
\* header cells; -1 when there is none
GenericHeaderRow(raw_data, i) ==
    IF i >= Len(raw_data) \/ i >= 25 THEN -1
    ELSE IF raw_data[i + 1] # << >> /\ HeaderCount(raw_data[i + 1]) >= 4 THEN i
    ELSE GenericHeaderRow(raw_data, i + 1)

\* _detect_generic_format
detect_generic_format(raw_data) ==
    LET header_row == GenericHeaderRow(raw_data, 0)
    IN [key |-> "GENERIC",
        name |-> "Generic Bank Format",
        header_row |-> header_row,
        mapping |-> IF header_row = -1 THEN << >>
                    ELSE GenericMapping(raw_data[header_row + 1], << >>),
        account_info_rows |-> <<0, 1, 2, 3, 4>>]

\* the lower-cased text of the first 20 rows
SearchText(raw_data) == Lower(JoinSpace(GridStrings(FirstRows(raw_data, 20))))

\* all(identifier.lower() in search_text for identifier in identifiers)
IdentifiersFound(identifiers, search_text) ==
    \A i \in 1..Len(identifiers) : Contains(search_text, Lower(identifiers[i]))

RECURSIVE FirstMatch(_, _)
\* the first profile of the registry, GENERIC skipped, whose identifiers
\* are all found: {**format_info, 'key': format_key}; << >> when none is
FirstMatch(formats, search_text) ==
    IF formats = << >> THEN << >>
    ELSE LET format_key == Head(formats)[1]
             format_info == Head(formats)[2]
         IN IF format_key # "GENERIC" /\ IdentifiersFound(format_info.identifiers, search_text)
            THEN [key |-> format_key] @@ format_info
            ELSE FirstMatch(Tail(formats), search_text)

\* a variant of _detect_format that writes the key into the profile of the
\* registry itself (format_info['key'] = format_key) instead of into a copy
DetectFormatStoresKey(raw_data, formats) ==
    [k \in 1..Len(formats) |->
        IF /\ formats[k][1] # "GENERIC"
           /\ IdentifiersFound(formats[k][2].identifiers, SearchText(raw_data))
           /\ \A j \in 1..(k - 1) :
                  formats[j][1] = "GENERIC"
                  \/ ~IdentifiersFound(formats[j][2].identifiers, SearchText(raw_data))
        THEN <<formats[k][1], [key |-> formats[k][1]] @@ formats[k][2]>>
        ELSE formats[k]]

\* self.bank_formats after _detect_format: the profile returned is a new
\* dict ({**format_info, 'key': format_key}) and the generic one is built
\* from scratch, so nothing is written to the registry
registry_after_detect(raw_data, formats) == formats

\* a variant of _detect_format that prefers a generic header row to the registry
DetectGenericFirst(raw_data, formats) ==
    LET generic == detect_generic_format(raw_data)
        found == FirstMatch(formats, SearchText(raw_data))
    IN IF generic.header_row # -1 \/ found = << >> THEN generic ELSE found

\* _detect_format
detect_format(raw_data, formats) ==
    LET found == FirstMatch(formats, SearchText(raw_data))
    IN IF found # << >> THEN found ELSE detect_generic_format(raw_data)

-----------------------------------------------------------------------------
(* Account information: _extract_account_info *)

IsUpper(c) == c \in UpperSet

IsSpace(c) == c \in {" ", "\t", "\n"}

\* \w
IsWordChar(c) == c \in UpperSet \/ c \in LowerSet \/ c \in DigitSet \/ c = "_"

\* \b between positions i and i + 1 of s
Boundary(s, i) ==
    LET before == i >= 1 /\ IsWordChar(CharAt(s, i))
        after == i + 1 <= Len(s) /\ IsWordChar(CharAt(s, i + 1))
    IN before # after

RECURSIVE DigitRunEnd(_, _)
\* the last position of the run of digits that goes on after e
DigitRunEnd(text, e) ==
    IF e < Len(text) /\ IsDigit(CharAt(text, e + 1)) THEN DigitRunEnd(text, e + 1) ELSE e

\* re.search(r'(\d{10,})', text).group(1), or "" without a match
AccountNumberMatch(text) ==
    LET starts == {i \in 1..(Len(text) - 9) :
                      /\ IsDigit(CharAt(text, i))
                      /\ AllDigits(SubSeq(text, i, i + 9))}
    IN IF starts = {} THEN ""
       ELSE LET p == CHOOSE i \in starts : \A j \in starts : i <= j
            IN SubSeq(text, p, DigitRunEnd(text, p))

RECURSIVE RunEnd(_, _)
\* the last position of the run of [A-Z\s] characters that goes on after e
RunEnd(text, e) ==
    IF e < Len(text) /\ (IsUpper(CharAt(text, e + 1)) \/ IsSpace(CharAt(text, e + 1)))
    THEN RunEnd(text, e + 1) ELSE e

\* the ends e of a match of \b[A-Z][A-Z\s]{10,}\b that starts at p
NameEnds(text, p) == {e \in (p + 10)..RunEnd(text, p) : Boundary(text, e)}

NameStarts(text) ==
    {p \in 1..Len(text) :
        /\ IsUpper(CharAt(text, p))
        /\ Boundary(text, p - 1)
        /\ NameEnds(text, p) # {}}

\* re.search(name_pattern, text).group(0): the leftmost start and, the
\* quantifier being greedy, its longest end; "" without a match
AccountNameMatch(text) ==
    LET starts == NameStarts(text)
    IN IF starts = {} THEN ""
       ELSE LET p == CHOOSE i \in starts : \A j \in starts : i <= j
                e == CHOOSE i \in NameEnds(text, p) : \A j \in NameEnds(text, p) : j <= i
            IN SubSeq(text, p, e)

RECURSIVE Strip(_)
\* str.strip()
Strip(s) ==
    IF s = "" THEN ""
    ELSE IF IsSpace(Head(s)) THEN Strip(Tail(s))
    ELSE IF IsSpace(CharAt(s, Len(s))) THEN Strip(SubSeq(s, 1, Len(s) - 1))
    ELSE s

\* a variant of the test of the balances loop that compares the text of the
\* cell as it is written (cell instead of cell.lower())
BalanceKeyCaseSensitive(row, i) ==
    IF ~IsStr(row[i + 1]) \/ i + 1 >= Len(row) THEN ""
    ELSE IF Contains(row[i + 1].s, "opening balance") THEN "opening_balance"
    ELSE IF Contains(row[i + 1].s, "closing balance") THEN "closing_balance"
    ELSE ""

\* the key the balances loop assigns at cell i (0-based) of the row, "" when
\* it assigns none
BalanceKey(row, i) ==
    IF ~IsStr(row[i + 1]) \/ i + 1 >= Len(row) THEN ""
    ELSE IF Contains(Lower(row[i + 1].s), "opening balance") THEN "opening_balance"
    ELSE IF Contains(Lower(row[i + 1].s), "closing balance") THEN "closing_balance"
    ELSE ""

\* the balances loop over the cells of one row: every assignment is
\* unconditional, so each key ends with the value of the last cell that
\* assigns it
RowBalances(row, account_info) ==
    LET assigned(key) == {i \in 0..(Len(row) - 1) : BalanceKey(row, i) = key}
        last(key) == CHOOSE i \in assigned(key) : \A j \in assigned(key) : j <= i
        keys == {key \in {"opening_balance", "closing_balance"} : assigned(key) # {}}
    IN [key \in DOMAIN account_info \cup keys |->
           IF key \in keys THEN parse_amount(row[last(key) + 2]) ELSE account_info[key]]

\* the body of the loop for one metadata row
AccountInfoRow(row, account_info) ==
    LET row_text == JoinSpace(RowStrings(row))
        account_match == AccountNumberMatch(row_text)
        with_number == IF account_match # "" /\ "account_number" \notin DOMAIN account_info
                       THEN DictSet(account_info, "account_number", CStr(account_match))
                       ELSE account_info
        name_match == AccountNameMatch(row_text)
        potential_name == Strip(name_match)
        with_name == IF /\ name_match # ""
                        /\ "account_name" \notin DOMAIN with_number
                        /\ ~Contains(potential_name, "ACCOUNT")
                     THEN DictSet(with_number, "account_name", CStr(potential_name))
                     ELSE with_number
    IN RowBalances(row, with_name)

RECURSIVE AccountInfoRows(_, _, _)
AccountInfoRows(raw_data, rows, account_info) ==
    IF rows = << >> THEN account_info
    ELSE LET row_index == Head(rows)
         IN AccountInfoRows(raw_data, Tail(rows),
                IF row_index < Len(raw_data) /\ raw_data[row_index + 1] # << >>
                THEN AccountInfoRow(raw_data[row_index + 1], account_info)
                ELSE account_info)

\* _extract_account_info
extract_account_info(raw_data, format_info) ==
    IF "account_info_rows" \in DOMAIN format_info
    THEN AccountInfoRows(raw_data, format_info.account_info_rows, EmptyDict)
    ELSE EmptyDict

-----------------------------------------------------------------------------
(* Transactions: _extract_transactions *)

\* the outcome of a call: a value, or the exception it raised
Ok(v) == [ok |-> TRUE, value |-> v, error |-> ""]
Raise(msg) == [ok |-> FALSE, value |-> << >>, error |-> msg]

\* not row or not any(cell for cell in row if cell is not None)
IsBlankRow(row) == row = << >> \/ \A j \in 1..Len(row) : ~Truthy(row[j])

\* any(self._is_date(cell) or self._is_amount(cell) for cell in row if cell is not None)
HasDateOrAmount(row) ==
    \E j \in 1..Len(row) : row[j] # CNone /\ (is_date(row[j]) \/ is_amount(row[j]))

RECURSIVE RowTransaction(_, _, _, _)
\* the dict built for one row: str(header) -> cell for every position j
\* (0-based, from j on) with a truthy header and a cell that is not None
RowTransaction(headers, row, j, transaction) ==
    IF j >= Len(headers) THEN transaction
    ELSE RowTransaction(headers, row, j + 1,
            IF Truthy(headers[j + 1]) /\ j < Len(row) /\ row[j + 1] # CNone
            THEN DictSet(transaction, PyStr(headers[j + 1]), row[j + 1])
            ELSE transaction)

RECURSIVE ExtractRowsPrepend(_, _, _, _)
\* a variant of the row loop that inserts each transaction at the front
ExtractRowsPrepend(raw_data, headers, i, transactions) ==
    IF i >= Len(raw_data) THEN transactions
    ELSE LET row == raw_data[i + 1]
             transaction == RowTransaction(headers, row, 0, EmptyDict)
         IN ExtractRowsPrepend(raw_data, headers, i + 1,
                IF ~IsBlankRow(row) /\ HasDateOrAmount(row) /\ DOMAIN transaction # {}
                THEN <<transaction>> \o transactions
                ELSE transactions)

RECURSIVE ExtractRows(_, _, _, _)
\* for i in range(i, len(raw_data)): the rows accepted, in order
ExtractRows(raw_data, headers, i, transactions) ==
    IF i >= Len(raw_data) THEN transactions
    ELSE LET row == raw_data[i + 1]
             transaction == RowTransaction(headers, row, 0, EmptyDict)
         IN ExtractRows(raw_data, headers, i + 1,
                IF ~IsBlankRow(row) /\ HasDateOrAmount(row) /\ DOMAIN transaction # {}
                THEN Append(transactions, transaction)
                ELSE transactions)

\* a variant of _extract_transactions that returns no transaction, instead of
\* raising, when there is no header row
ExtractTransactionsLenient(raw_data, format_info) ==
    IF format_info.header_row = -1 THEN Ok(<< >>)
    ELSE IF format_info.header_row >= Len(raw_data) THEN Raise("list index out of range")
    ELSE Ok(ExtractRows(raw_data, raw_data[format_info.header_row + 1],
                        format_info.header_row + 1, << >>))

\* _extract_transactions: raw_data[header_row] raises IndexError on a grid
\* with no such row
extract_transactions(raw_data, format_info) ==
    IF format_info.header_row = -1 THEN Raise("Unable to locate transaction header row")
    ELSE IF format_info.header_row >= Len(raw_data) THEN Raise("list index out of range")
    ELSE Ok(ExtractRows(raw_data, raw_data[format_info.header_row + 1],
                        format_info.header_row + 1, << >>))

-----------------------------------------------------------------------------
(* Standardization: _standardize_transactions, _handle_debit_credit_logic *)

\* options.get('date_format', 'DD/MM/YYYY')
DateFormatOf(options) ==
    IF "date_format" \in DOMAIN options THEN options["date_format"] ELSE "DD/MM/YYYY"

\* the value stored for one mapped column
MappedValue(standard, value, options) ==
    IF Contains(standard, "Date") THEN CStr(standardize_date(value, DateFormatOf(options)))
    ELSE IF standard \in {"Debit", "Credit", "Balance"} THEN CStr(standardize_amount(value))
    ELSE value

RECURSIVE ApplyMapping(_, _, _, _)
\* for original, standard in format_info['mapping'].items(): ...
ApplyMapping(mapping, transaction, options, standard_transaction) ==
    IF mapping = << >> THEN standard_transaction
    ELSE LET original == Head(mapping)[1]
             standard == Head(mapping)[2]
         IN ApplyMapping(Tail(mapping), transaction, options,
                IF original \in DOMAIN transaction /\ transaction[original] # CNone
                THEN DictSet(standard_transaction, standard,
                             MappedValue(standard, transaction[original], options))
                ELSE standard_transaction)

\* a variant of the backfill loop that adds nothing
BackfillNothing(standard_transaction) == standard_transaction

\* for header in self.standard_headers: if header not in ...: ... = ''
Backfill(standard_transaction) ==
    [h \in DOMAIN standard_transaction \cup {standard_headers[i] : i \in 1..Len(standard_headers)} |->
        IF h \in DOMAIN standard_transaction THEN standard_transaction[h] ELSE CStr("")]

\* standardized.get(key), truthy
GetTruthy(d, key) == key \in DOMAIN d /\ Truthy(d[key])

\* a variant of _handle_debit_credit_logic that keeps the sign of a negative amount
HandleDebitCreditSigned(standardized, original) ==
    LET amount == parse_amount(original["Amount"])
    IN IF "Amount" \in DOMAIN original /\ ~GetTruthy(standardized, "Debit")
                                      /\ ~GetTruthy(standardized, "Credit")
       THEN IF LtZero(amount)
            THEN DictSet(DictSet(standardized, "Debit", CStr(Format2f(amount))),
                         "Credit", CStr(""))
            ELSE DictSet(DictSet(standardized, "Credit", CStr(Format2f(amount))),
                         "Debit", CStr(""))
       ELSE standardized

\* a variant of _handle_debit_credit_logic that takes the Amount column
\* whenever the raw transaction has one
HandleDebitCreditAlways(standardized, original) ==
    LET amount == parse_amount(original["Amount"])
    IN IF "Amount" \in DOMAIN original
       THEN IF LtZero(amount)
            THEN DictSet(DictSet(standardized, "Debit", CStr(Format2f(Abs(amount)))),
                         "Credit", CStr(""))
            ELSE DictSet(DictSet(standardized, "Credit", CStr(Format2f(amount))),
                         "Debit", CStr(""))
       ELSE standardized

\* _handle_debit_credit_logic: the dict it leaves in `standardized`
handle_debit_credit_logic(standardized, original) ==
    LET amount == parse_amount(original["Amount"])
        fallback ==
            IF "Amount" \in DOMAIN original /\ ~GetTruthy(standardized, "Debit")
                                           /\ ~GetTruthy(standardized, "Credit")
            THEN IF LtZero(amount)
                 THEN DictSet(DictSet(standardized, "Debit", CStr(Format2f(Abs(amount)))),
                              "Credit", CStr(""))
                 ELSE DictSet(DictSet(standardized, "Credit", CStr(Format2f(amount))),
                              "Debit", CStr(""))
            ELSE standardized
        credit_cleared ==
            IF GetTruthy(fallback, "Debit") /\ ~GetTruthy(fallback, "Credit")
            THEN DictSet(fallback, "Credit", CStr("")) ELSE fallback
    IN IF GetTruthy(credit_cleared, "Credit") /\ ~GetTruthy(credit_cleared, "Debit")
       THEN DictSet(credit_cleared, "Debit", CStr("")) ELSE credit_cleared

\* the body of the loop of _standardize_transactions for one transaction
StandardizeOne(transaction, mapping, options) ==
    handle_debit_credit_logic(
        Backfill(ApplyMapping(mapping, transaction, options, EmptyDict)), transaction)

RECURSIVE StandardizeAll(_, _, _)
StandardizeAll(transactions, mapping, options) ==
    IF transactions = << >> THEN << >>
    ELSE <<StandardizeOne(Head(transactions), mapping, options)>>
         \o StandardizeAll(Tail(transactions), mapping, options)

\* _standardize_transactions
standardize_transactions(transactions, format_info, options) ==
    StandardizeAll(transactions, format_info.mapping, options)

-----------------------------------------------------------------------------
(* Files and the grid loader: _read_file *)

\* a cell of the sheet that holds nothing
CAbsent == Val("absent", FALSE, 0, "")

\* Path(p).name
PathName(p) ==
    LET slashes == {i \in 1..Len(p) : CharAt(p, i) = "/"}
    IN IF slashes = {} THEN p
       ELSE SubSeq(p, (CHOOSE i \in slashes : \A j \in slashes : j <= i) + 1, Len(p))

\* Path(p).suffix
PathSuffix(p) ==
    LET name == PathName(p)
        dots == {i \in 2..Len(name) : CharAt(name, i) = "."}
    IN IF dots = {} THEN ""
       ELSE SubSeq(name, CHOOSE i \in dots : \A j \in dots : j <= i, Len(name))

\* the rows of the sheet with its absent cells as `absent`
LoadRows(sheet, absent) ==
    [i \in 1..Len(sheet) |->
        [j \in 1..Len(sheet[i]) |-> IF sheet[i][j] = CAbsent THEN absent ELSE sheet[i][j]]]

\* _read_file: openpyxl gives None for a cell that holds nothing and
\* refuses the old .xls format; pandas (.ods) gives float('nan')
read_file(f) ==
    LET suffix == Lower(PathSuffix(f.path))
    IN IF suffix \in {".xlsx", ".xls"}
       THEN IF suffix = ".xls" THEN Raise("openpyxl does not support the old .xls file format")
            ELSE IF ~f.readable THEN Raise("File is not a zip file")
            ELSE Ok(LoadRows(f.sheet, CNone))
       ELSE IF suffix = ".ods"
       THEN IF ~f.readable THEN Raise("File is not a zip file")
            ELSE Ok(LoadRows(f.sheet, CNaN))
       ELSE Raise("Unsupported file format: " \o PathSuffix(f.path))

-----------------------------------------------------------------------------
(* The sheets of the model *)

\* the header labels of a statement of no registered bank, and of one with
\* a single signed amount column
GenericLabels == <<"Date", "Narration", "Ref", "Debit", "Credit", "Balance">>
AmountLabels == <<"Date", "Description", "Reference", "Amount", "Balance">>
\* labels that hold the words of several rules
MixedLabels == <<"Value Date", "Debit/Credit Remarks", "Withdrawal or Deposit",
                 "Credit Balance", "Balance Ref", "Amount">>

RECURSIVE TextRow(_)
\* a row of text cells
TextRow(labels) == IF labels = << >> THEN << >> ELSE <<CStr(Head(labels))>> \o TextRow(Tail(labels))

\* a row of the sheet: the given cells, then cells that hold nothing
SheetRow(cells) == [j \in 1..Len(GenericLabels) |-> IF j <= Len(cells) THEN cells[j] ELSE CAbsent]

\* the account lines at the top of a statement
MetaRow == SheetRow(<<CStr("ACCOUNT NAME"), CStr("ADA OBI NWOSU LTD"),
                      CStr("Opening Balance"), CInt(FALSE, 50000000)>>)

\* the row that carries the identifying texts of the FCMB profile
TokenRow(fid, fcase) ==
    LET title == IF fcase = "upper" THEN "STATEMENT OF ACCOUNT" ELSE "Statement of Account"
    IN SheetRow(CASE fid = "both" -> <<CStr(title), CStr("Account No: 1021040520")>>
                  [] fid = "title" -> <<CStr(title), CStr("Account No: 1021040527")>>
                  [] fid = "number" -> <<CStr("Statement"), CStr("Account No: 1021040520")>>)

HeaderRowOf(hdr) ==
    SheetRow(CASE hdr = "fcmb" -> TextRow(<<"Transaction Date", "Description",
                                            "Instrument Code", "Withdrawls", "Deposits",
                                            "Balance">>)
               [] hdr = "gtb" -> TextRow(<<"TRA DATE", "REMARKS", "NUBAN", "DEBIT", "CREDIT",
                                           "CRNT BAL">>)
               [] hdr = "generic" -> TextRow(GenericLabels)
               [] hdr = "amount" -> TextRow(AmountLabels)
               [] hdr = "mixed" -> TextRow(MixedLabels)
               [] hdr = "weak" -> TextRow(<<"Date", "Details", "Ref", "Amount">>))

\* the rows under the header
BodyOf(body) ==
    CASE body = "test" ->
           << SheetRow(<<CStr("01/01/2024"), CStr("Test Transaction"), CAbsent, CStr(""),
                         CStr("1000.00"), CStr("1000.00")>>),
              SheetRow(<< >>),
              SheetRow(<<CStr("02/01/2024"), CStr("Another Transaction"), CInt(FALSE, 77000),
                         CStr("500.00"), CStr(""), CStr("500.00")>>) >>
      [] body = "typed" ->
           << SheetRow(<<CInt(FALSE, 45292000), CStr("POS"), CStr("R-2"),
                         CFloat(TRUE, 250500), CAbsent, CFloat(FALSE, 749500)>>),
              SheetRow(<<CStr("Sub total")>>),
              SheetRow(<<CDate(45293, "2024-01-02 00:00:00"), CStr("TRF"), CAbsent, CAbsent,
                         CStr("₦1,000.00"), CStr("1,749.50")>>) >>
      [] body = "none" -> << >>

\* where the rows of a sheet are put: the FCMB texts (fid, fcase) in row
\* frow, the header hdr in row hrow, the body under it
SheetParams ==
    {q \in [fid : {"none", "both", "title", "number"}, fcase : {"upper", "lower"},
            frow : {1, 19, 20},
            hdr : {"none", "fcmb", "gtb", "generic", "amount", "weak"},
            hrow : {2, 16, 24, 25},
            body : {"test", "typed", "none"}] :
        /\ q.fid = "none" => q.fcase = "upper" /\ q.frow = 1
        /\ q.hdr = "none" => q.hrow = 2}

SheetHeight(q) ==
    LET last == q.hrow + Len(BodyOf(q.body))
    IN 1 + (IF q.fid # "none" /\ q.frow > last THEN q.frow ELSE last)

\* the sheet: row 0 is the account line; indices are 0-based
SheetOf(q) ==
    [n \in 1..SheetHeight(q) |->
        LET i == n - 1
        IN IF q.fid # "none" /\ i = q.frow THEN TokenRow(q.fid, q.fcase)
           ELSE IF q.hdr # "none" /\ i = q.hrow THEN HeaderRowOf(q.hdr)
           ELSE IF i > q.hrow /\ i <= q.hrow + Len(BodyOf(q.body)) THEN BodyOf(q.body)[i - q.hrow]
           ELSE IF i = 0 THEN MetaRow
           ELSE SheetRow(<< >>)]

\* the sheet of a statement of no registered bank, with the given rows
\* under its header
UploadSheet(hdr, body) ==
    SheetOf([fid |-> "none", fcase |-> "upper", frow |-> 1, hdr |-> hdr, hrow |-> 2,
             body |-> body])

\* the sheet with the given row as its account line
WithAccountLine(sheet, row) == [sheet EXCEPT ![1] = row]

UploadDir == "/tmp/uploads/"

\* the files handed to transform_statement
Files ==
    {[path |-> UploadDir \o "statement" \o ext, readable |-> TRUE, sheet |-> SheetOf(q)] :
        ext \in {".xlsx", ".ods"}, q \in SheetParams}
    \cup {[path |-> UploadDir \o name, readable |-> r,
           sheet |-> SheetOf([fid |-> "none", fcase |-> "upper", frow |-> 1, hdr |-> "generic",
                              hrow |-> 2, body |-> "test"])] :
            name \in {"old.xls", "data.csv", "noext", "Scan.XLSX"}, r \in BOOLEAN}
    \cup {[path |-> UploadDir \o "twice.xlsx", readable |-> TRUE,
           sheet |-> WithAccountLine(UploadSheet(hdr, "test"), HeaderRowOf("amount"))] :
            hdr \in {"generic", "weak", "none"}}
    \cup {[path |-> UploadDir \o "mixed.xlsx", readable |-> TRUE,
           sheet |-> WithAccountLine(UploadSheet("none", body), HeaderRowOf("mixed"))] :
            body \in {"test", "typed"}}

Options == {EmptyDict, [date_format |-> "YYYY-MM-DD"]}

-----------------------------------------------------------------------------
(* transform_statement *)

\* a local that holds nothing yet
NotRun == Val("notrun", FALSE, 0, "")
NoValue == << >>

AmtIdle ==
    /\ a_in = CNone
    /\ a_parsed = NotRun
    /\ a_std = NotRun
    /\ a_std2 = NotRun
    /\ a_pc = "idle"

DateIdle ==
    /\ d_in = CNone
    /\ d_target = ""
    /\ d_out = NotRun
    /\ d_out2 = NotRun
    /\ d_pc = "idle"

StdIdle ==
    /\ s_mapping = << >>
    /\ s_txn = EmptyDict
    /\ s_options = EmptyDict
    /\ s_applied = EmptyDict
    /\ s_filled = EmptyDict
    /\ s_out = EmptyDict
    /\ s_out2 = EmptyDict
    /\ s_pc = "idle"

PipeIdle ==
    /\ bank_formats = InitialBankFormats
    /\ tr_file = NoValue
    /\ tr_options = EmptyDict
    /\ tr_raw_data = NoValue
    /\ tr_format_info = NoValue
    /\ tr_account_info = NoValue
    /\ tr_transactions = NoValue
    /\ tr_standardized = NoValue
    /\ tr_error = ""
    /\ tr_result = NoValue
    /\ clock = 0
    /\ tr_pc = "idle"
    /\ tr_output = NoValue

BatchIdle ==
    /\ b_files = << >>
    /\ b_options = EmptyDict
    /\ b_index = 0
    /\ b_results = << >>
    /\ b_folder = EmptyDict
    /\ b_uuid = 0
    /\ b_response = NoValue
    /\ b_pc = "idle"
    /\ b_form = EmptyDict
    /\ b_preview = NoValue

Init ==
    /\ AmtIdle
    /\ DateIdle
    /\ StdIdle
    /\ BatchIdle
    /\ bank_formats = InitialBankFormats
    /\ tr_file \in Files
    /\ tr_options \in Options
    /\ tr_raw_data = NoValue
    /\ tr_format_info = NoValue
    /\ tr_account_info = NoValue
    /\ tr_transactions = NoValue
    /\ tr_standardized = NoValue
    /\ tr_error = ""
    /\ tr_result = NoValue
    /\ clock = 0
    /\ tr_pc = "start"
    /\ tr_output = NoValue

\* df, raw_data = self._read_file(file_path)
ReadFile ==
    /\ tr_pc = "start"
    /\ LET r == read_file(tr_file)
       IN IF r.ok
          THEN tr_raw_data' = r.value /\ tr_pc' = "read" /\ UNCHANGED tr_error
          ELSE tr_error' = r.error /\ tr_pc' = "except" /\ UNCHANGED tr_raw_data
    /\ UNCHANGED <<bank_formats, tr_file, tr_options, tr_format_info, tr_account_info, tr_transactions,
                   tr_standardized, tr_result, clock, tr_output,
                   amtVars, stdVars, batchVars, dateVars>>

\* format_info = self._detect_format(raw_data, file_path)
DetectFormat ==
    /\ tr_pc = "read"
    /\ tr_format_info' = detect_format(tr_raw_data, bank_formats)
    /\ bank_formats' = registry_after_detect(tr_raw_data, bank_formats)
    /\ tr_pc' = "detected"
    /\ UNCHANGED <<tr_file, tr_options, tr_raw_data, tr_account_info, tr_transactions,
                   tr_standardized, tr_error, tr_result, clock, tr_output,
                   amtVars, stdVars, batchVars, dateVars>>

\* account_info = self._extract_account_info(raw_data, format_info)
ExtractAccountInfo ==
    /\ tr_pc = "detected"
    /\ tr_account_info' = extract_account_info(tr_raw_data, tr_format_info)
    /\ tr_pc' = "info"
    /\ UNCHANGED <<bank_formats, tr_file, tr_options, tr_raw_data, tr_format_info, tr_transactions,
                   tr_standardized, tr_error, tr_result, clock, tr_output,
                   amtVars, stdVars, batchVars, dateVars>>

\* transactions = self._extract_transactions(raw_data, format_info)
ExtractTransactions ==
    /\ tr_pc = "info"
    /\ LET r == extract_transactions(tr_raw_data, tr_format_info)
       IN IF r.ok
          THEN tr_transactions' = r.value /\ tr_pc' = "extracted" /\ UNCHANGED tr_error
          ELSE tr_error' = r.error /\ tr_pc' = "except" /\ UNCHANGED tr_transactions
    /\ UNCHANGED <<bank_formats, tr_file, tr_options, tr_raw_data, tr_format_info, tr_account_info,
                   tr_standardized, tr_result, clock, tr_output,
                   amtVars, stdVars, batchVars, dateVars>>

\* standardized_transactions = self._standardize_transactions(...)
StandardizeTransactions ==
    /\ tr_pc = "extracted"
    /\ tr_standardized' = standardize_transactions(tr_transactions, tr_format_info, tr_options)
    /\ tr_pc' = "standardized"
    /\ UNCHANGED <<bank_formats, tr_file, tr_options, tr_raw_data, tr_format_info, tr_account_info,
                   tr_transactions, tr_error, tr_result, clock, tr_output,
                   amtVars, stdVars, batchVars, dateVars>>

\* the dict of a successful transform
SuccessResult(info, txns, fmt, path, now) ==
    [success |-> TRUE,
     account_info |-> info,
     transactions |-> txns,
     original_format |-> fmt.name,
     records_processed |-> Len(txns),
     metadata |-> [file_name |-> PathName(path), processed_at |-> now,
                   standard_headers |-> standard_headers]]

\* the dict of the except branch
FailureResult(msg, path) ==
    [success |-> FALSE, error |-> msg, file_name |-> PathName(path)]

\* result = {...}; return result
ReturnResult ==
    /\ tr_pc = "standardized"
    /\ tr_result' = SuccessResult(tr_account_info, tr_standardized, tr_format_info,
                               tr_file.path, clock)
    /\ clock' = clock + 1
    /\ tr_pc' = "done"
    /\ UNCHANGED <<bank_formats, tr_file, tr_options, tr_raw_data, tr_format_info, tr_account_info,
                   tr_transactions, tr_standardized, tr_error, tr_output,
                   amtVars, stdVars, batchVars, dateVars>>

\* except Exception as e: return {'success': False, ...}
ReturnError ==
    /\ tr_pc = "except"
    /\ tr_result' = FailureResult(tr_error, tr_file.path)
    /\ tr_pc' = "done"
    /\ UNCHANGED <<bank_formats, tr_file, tr_options, tr_raw_data, tr_format_info, tr_account_info,
                   tr_transactions, tr_standardized, tr_error, clock, tr_output,
                   amtVars, stdVars, batchVars, dateVars>>

Next ==
    \/ ReadFile
    \/ DetectFormat
    \/ ExtractAccountInfo
    \/ ExtractTransactions
    \/ StandardizeTransactions
    \/ ReturnResult
    \/ ReturnError

Spec == Init /\ [][Next]_vars

-----------------------------------------------------------------------------
(* The output file: generate_standardized_file *)

\* d.get(key, '')
GetOrEmpty(d, key) == IF key \in DOMAIN d THEN d[key] ELSE CStr("")

\* the rows of the Metadata sheet
MetadataRows(transformed_data) ==
    << <<"Account Information", CStr("")>>,
       <<"Account Number", GetOrEmpty(transformed_data.account_info, "account_number")>>,
       <<"Account Name", GetOrEmpty(transformed_data.account_info, "account_name")>>,
       <<"Opening Balance", GetOrEmpty(transformed_data.account_info, "opening_balance")>>,
       <<"Closing Balance", GetOrEmpty(transformed_data.account_info, "closing_balance")>>,
       <<"", CStr("")>>,
       <<"Processing Information", CStr("")>>,
       <<"Original Format", CStr(transformed_data.original_format)>>,
       <<"Records Processed", CInt(FALSE, transformed_data.records_processed * 1000)>>,
       <<"Processed At", transformed_data.metadata.processed_at>> >>

\* a sheet as to_excel(index=False) writes it: the column names, then the rows
Sheet(columns, rows) == [columns |-> columns, rows |-> rows]

\* transactions_df[self.standard_headers], row by row
TransactionRows(transactions) ==
    [n \in 1..Len(transactions) |->
        [h \in 1..Len(standard_headers) |-> transactions[n][standard_headers[h]]]]

\* options.get('include_metadata', True) and transformed_data.get('account_info')
MetadataWanted(transformed_data, options) ==
    /\ ("include_metadata" \in DOMAIN options => options["include_metadata"])
    /\ DOMAIN transformed_data.account_info # {}

\* the extensions pandas' openpyxl writer accepts
WriterExtensions == {".xlsx", ".xlsm"}

\* pd.ExcelWriter(output_path, engine='openpyxl') takes the path: the text
\* after the last dot has to lie within one of the writer's extensions
WriterAccepts(output_path) ==
    LET ext == PathSuffix(output_path)
    IN \E extension \in WriterExtensions :
           Contains(extension, IF ext = "" THEN "" ELSE Tail(ext))

\* generate_standardized_file: the workbook written at output_path, sheet
\* name -> sheet.  With no transaction the frame has no column, selecting
\* the standard headers raises and closing the writer, which holds no
\* sheet, raises in its turn
generate_standardized_file(transformed_data, output_path, options) ==
    IF ~WriterAccepts(output_path)
    THEN Raise("Invalid extension for engine 'openpyxl': '" \o Tail(PathSuffix(output_path))
               \o "'")
    ELSE IF transformed_data.transactions = << >>
    THEN Raise("At least one sheet must be visible")
    ELSE Ok([Transactions |-> Sheet(standard_headers,
                                    TransactionRows(transformed_data.transactions))]
            @@ (IF MetadataWanted(transformed_data, options)
                THEN [Metadata |-> Sheet(<<"Field", "Value">>, MetadataRows(transformed_data))]
                ELSE EmptyDict))

-----------------------------------------------------------------------------
(* Several transforms on one transformer, each followed or not by the
   writing of the output file *)

\* the sheet without its account line
WithoutAccountLine(sheet) == WithAccountLine(sheet, SheetRow(<< >>))

\* the statements handed to the transformer one after the other
SeqFiles ==
    {[path |-> UploadDir \o "fcmb.xlsx", readable |-> TRUE,
      sheet |-> SheetOf([fid |-> "both", fcase |-> "upper", frow |-> 1, hdr |-> "fcmb",
                         hrow |-> 16, body |-> "test"])],
     [path |-> UploadDir \o "gtb.ods", readable |-> TRUE,
      sheet |-> SheetOf([fid |-> "none", fcase |-> "upper", frow |-> 1, hdr |-> "gtb",
                         hrow |-> 2, body |-> "typed"])],
     [path |-> UploadDir \o "other.xlsx", readable |-> TRUE,
      sheet |-> SheetOf([fid |-> "none", fcase |-> "upper", frow |-> 1, hdr |-> "generic",
                         hrow |-> 2, body |-> "test"])],
     [path |-> UploadDir \o "plain.xlsx", readable |-> TRUE,
      sheet |-> WithoutAccountLine(SheetOf([fid |-> "none", fcase |-> "upper", frow |-> 1,
                                            hdr |-> "generic", hrow |-> 2, body |-> "test"]))],
     [path |-> UploadDir \o "empty.xlsx", readable |-> TRUE,
      sheet |-> SheetOf([fid |-> "none", fcase |-> "upper", frow |-> 1, hdr |-> "generic",
                         hrow |-> 2, body |-> "none"])],
     [path |-> UploadDir \o "scan.xlsx", readable |-> TRUE,
      sheet |-> SheetOf([fid |-> "none", fcase |-> "upper", frow |-> 1, hdr |-> "none",
                         hrow |-> 2, body |-> "test"])],
     [path |-> UploadDir \o "broken.xlsx", readable |-> FALSE,
      sheet |-> SheetOf([fid |-> "none", fcase |-> "upper", frow |-> 1, hdr |-> "generic",
                         hrow |-> 2, body |-> "test"])]}

\* the options handed to transform_statement and, with its result, to
\* generate_standardized_file
SeqOptions ==
    {EmptyDict, [date_format |-> "YYYY-MM-DD"], [include_metadata |-> FALSE],
     [include_metadata |-> TRUE, date_format |-> "DD/MM/YYYY"]}

\* the latest time at which a further transform is started
MaxClock == 2

SeqInit ==
    /\ AmtIdle
    /\ DateIdle
    /\ StdIdle
    /\ BatchIdle
    /\ bank_formats = InitialBankFormats
    /\ tr_file \in SeqFiles
    /\ tr_options \in SeqOptions
    /\ tr_raw_data = NoValue
    /\ tr_format_info = NoValue
    /\ tr_account_info = NoValue
    /\ tr_transactions = NoValue
    /\ tr_standardized = NoValue
    /\ tr_error = ""
    /\ tr_result = NoValue
    /\ clock = 0
    /\ tr_pc = "start"
    /\ tr_output = NoValue

\* the next call of transform_statement on the same transformer, some time
\* after the last one returned: the locals are new, self.bank_formats stays
CallAgain ==
    /\ tr_pc = "done"
    /\ clock < MaxClock
    /\ tr_file' \in SeqFiles
    /\ tr_options' \in SeqOptions
    /\ tr_raw_data' = NoValue
    /\ tr_format_info' = NoValue
    /\ tr_account_info' = NoValue
    /\ tr_transactions' = NoValue
    /\ tr_standardized' = NoValue
    /\ tr_error' = ""
    /\ tr_result' = NoValue
    /\ clock' = clock + 1
    /\ tr_pc' = "start"
    /\ tr_output' = NoValue
    /\ UNCHANGED <<bank_formats, amtVars, stdVars, batchVars, dateVars>>

\* Path(p).stem
PathStem(p) == SubSeq(PathName(p), 1, Len(PathName(p)) - Len(PathSuffix(p)))

\* generate_standardized_file(result, output_path, options) on the result of
\* the last transform, at the path the module's example derives from the
\* input; what the ExcelWriter raises is kept in place of the workbook
GenerateFile ==
    /\ tr_pc = "done"
    /\ tr_result.success
    /\ tr_output = NoValue
    /\ tr_output' = generate_standardized_file(
                         tr_result, "standardized_" \o PathStem(tr_file.path) \o ".xlsx",
                         tr_options)
    /\ UNCHANGED <<bank_formats, tr_file, tr_options, tr_raw_data, tr_format_info,
                   tr_account_info, tr_transactions, tr_standardized, tr_error, tr_result,
                   clock, tr_pc, amtVars, stdVars, batchVars, dateVars>>

SeqNext ==
    \/ ReadFile
    \/ DetectFormat
    \/ ExtractAccountInfo
    \/ ExtractTransactions
    \/ StandardizeTransactions
    \/ ReturnResult
    \/ ReturnError
    \/ GenerateFile
    \/ CallAgain

SpecSeq == SeqInit /\ [][SeqNext]_vars

\* transform_statement as one call, from the extraction on: the dict it
\* returns at time now
TransformExtracted(account_info, transactions, format_info, path, options, now) ==
    IF ~transactions.ok THEN FailureResult(transactions.error, path)
    ELSE SuccessResult(account_info,
                       standardize_transactions(transactions.value, format_info, options),
                       format_info, path, now)

\* ... from the detection on
TransformDetected(raw_data, format_info, path, options, now) ==
    TransformExtracted(extract_account_info(raw_data, format_info),
                       extract_transactions(raw_data, format_info),
                       format_info, path, options, now)

\* ... from the reading on
TransformRead(read, path, options, formats, now) ==
    IF ~read.ok THEN FailureResult(read.error, path)
    ELSE TransformDetected(read.value, detect_format(read.value, formats), path, options, now)

\* transform_statement as one call
transform_statement(f, opts, formats, now) ==
    TransformRead(read_file(f), f.path, opts, formats, now)

-----------------------------------------------------------------------------
(* Statements with different account lines *)

\* the lines found at the top of a statement
InfoLines ==
    {MetaRow,
     SheetRow(<< >>),
     SheetRow(<<CStr("ACCOUNT NAME: ADA OBI NWOSU LTD"), CStr("Account No: 0123456789")>>),
     SheetRow(<<CStr("BOLA AHMED TINUBU"), CStr("9876543210123"), CStr("opening balance"),
                CStr("₦1,000.50"), CStr("CLOSING BALANCE")>>),
     SheetRow(<<CStr("Opening Balance"), CInt(FALSE, 70000000), CStr("Closing Balance"),
                CStr("(250.00)"), CStr("OPENING BALANCE"), CInt(FALSE, 100000)>>),
     SheetRow(<<CStr("Closing Balance"), CAbsent, CAbsent, CAbsent, CAbsent,
                CStr("opening balance")>>),
     SheetRow(<<CStr("Opening Balance / Closing Balance"), CInt(FALSE, 100000)>>)}

\* the sheet with the two lines as its rows 0 and 1
WithAccountLines(sheet, first, second) ==
    [sheet EXCEPT ![1] = first, ![2] = second]

\* statements of no registered bank and of GTB with two account lines, with
\* and without rows under the header, and a statement that ends after the
\* line with the FCMB texts
InfoFiles ==
    {[path |-> UploadDir \o "statement.xlsx", readable |-> TRUE,
      sheet |-> WithAccountLines(UploadSheet(hdr, body), first, second)] :
        hdr \in {"generic", "gtb"}, body \in {"test", "none"},
        first \in InfoLines, second \in InfoLines}
    \cup {[path |-> UploadDir \o "statement.ods", readable |-> TRUE,
           sheet |-> WithAccountLines(UploadSheet("generic", "typed"), first, MetaRow)] :
            first \in InfoLines}
    \cup {[path |-> UploadDir \o "short.xlsx", readable |-> TRUE,
           sheet |-> <<first, TokenRow("both", "upper"), SheetRow(<< >>)>>] :
            first \in InfoLines}

InfoInit ==
    /\ AmtIdle
    /\ DateIdle
    /\ StdIdle
    /\ BatchIdle
    /\ bank_formats = InitialBankFormats
    /\ tr_file \in InfoFiles
    /\ tr_options = EmptyDict
    /\ tr_raw_data = NoValue
    /\ tr_format_info = NoValue
    /\ tr_account_info = NoValue
    /\ tr_transactions = NoValue
    /\ tr_standardized = NoValue
    /\ tr_error = ""
    /\ tr_result = NoValue
    /\ clock = 0
    /\ tr_pc = "start"
    /\ tr_output = NoValue

SpecInfo == InfoInit /\ [][Next]_vars

-----------------------------------------------------------------------------
(* The batch endpoint: transform_statements (app.py) *)

ALLOWED_EXTENSIONS == {"xlsx", "xls", "ods"}

\* filename.rsplit('.', 1)[1], for a filename with a dot
AfterLastDot(filename) ==
    LET dots == {i \in 1..Len(filename) : CharAt(filename, i) = "."}
    IN SubSeq(filename, (CHOOSE i \in dots : \A j \in dots : j <= i) + 1, Len(filename))

\* allowed_file
allowed_file(filename) ==
    Contains(filename, ".") /\ Lower(AfterLastDot(filename)) \in ALLOWED_EXTENSIONS

RECURSIVE JoinWords(_)
\* "_".join(s.split()) on a stripped string
JoinWords(s) ==
    IF s = "" THEN ""
    ELSE IF IsSpace(Head(s))
    THEN (IF IsSpace(Head(Tail(s))) THEN "" ELSE "_") \o JoinWords(Tail(s))
    ELSE Head(s) \o JoinWords(Tail(s))

RECURSIVE KeepSafe(_)
\* re.sub(r'[^A-Za-z0-9_.-]', '', s)
KeepSafe(s) ==
    IF s = "" THEN ""
    ELSE (IF IsWordChar(Head(s)) \/ Head(s) \in {".", "-"} THEN Head(s) ELSE "")
         \o KeepSafe(Tail(s))

RECURSIVE StripDots(_)
\* s.strip('._')
StripDots(s) ==
    IF s = "" THEN ""
    ELSE IF Head(s) \in {".", "_"} THEN StripDots(Tail(s))
    ELSE IF CharAt(s, Len(s)) \in {".", "_"} THEN StripDots(SubSeq(s, 1, Len(s) - 1))
    ELSE s

RECURSIVE SlashToSpace(_)
SlashToSpace(s) ==
    IF s = "" THEN "" ELSE (IF Head(s) = "/" THEN " " ELSE Head(s)) \o SlashToSpace(Tail(s))

\* werkzeug's secure_filename on ASCII text: path separators become spaces,
\* the words are joined by "_", unsafe characters are dropped and the dots
\* and underscores at both ends stripped
secure_filename(filename) == StripDots(KeepSafe(JoinWords(Strip(SlashToSpace(filename)))))

\* str(uuid.uuid4()): a text no earlier call returned
Uuid4(n) == "uuid" \o NatToStr(n)

\* del d[key]
DictRemove(d, key) == [x \in DOMAIN d \ {key} |-> d[x]]

\* the files a request may carry
Uploads ==
    {[filename |-> "statement.xlsx", readable |-> TRUE, sheet |-> UploadSheet("generic", "test")],
     [filename |-> "my statement.ods", readable |-> TRUE, sheet |-> UploadSheet("gtb", "typed")],
     [filename |-> "broken.xlsx", readable |-> FALSE, sheet |-> UploadSheet("generic", "test")],
     [filename |-> "notes.txt", readable |-> TRUE, sheet |-> UploadSheet("generic", "test")],
     [filename |-> "", readable |-> TRUE, sheet |-> UploadSheet("generic", "test")],
     [filename |-> "empty.xlsx", readable |-> TRUE, sheet |-> UploadSheet("generic", "none")],
     [filename |-> "scan.xlsx", readable |-> TRUE, sheet |-> UploadSheet("none", "test")],
     [filename |-> "statement.xlsx", readable |-> TRUE, sheet |-> UploadSheet("amount", "typed")],
     [filename |-> "named.xlsx", readable |-> TRUE,
      sheet |-> WithAccountLine(UploadSheet("amount", "typed"),
                                SheetRow(<<CStr("ADA OBI NWOSU LTD"), CStr("0123456789")>>))]}

\* the longest request
MaxBatch == 2

Batches == UNION {[1..n -> Uploads] : n \in 0..MaxBatch}

\* request.form.get(key, default)
FormGet(form, key, default) == IF key \in DOMAIN form THEN form[key] ELSE default

\* the options of lines 567-571
ApiOptions(form) ==
    [date_format |-> FormGet(form, "date_format", "DD/MM/YYYY"),
     currency |-> FormGet(form, "currency", "NGN"),
     include_metadata |-> Lower(FormGet(form, "include_metadata", "false")) = "true"]

\* the forms a request may carry: each field is there or not
Forms ==
    {EmptyDict,
     [include_metadata |-> "true"],
     [include_metadata |-> "True", date_format |-> "YYYY-MM-DD"],
     [include_metadata |-> "false", currency |-> "USD"]}

BatchInit ==
    /\ AmtIdle
    /\ DateIdle
    /\ StdIdle
    /\ bank_formats = InitialBankFormats
    /\ tr_file = NoValue
    /\ tr_options = EmptyDict
    /\ tr_raw_data = NoValue
    /\ tr_format_info = NoValue
    /\ tr_account_info = NoValue
    /\ tr_transactions = NoValue
    /\ tr_standardized = NoValue
    /\ tr_error = ""
    /\ tr_result = NoValue
    /\ clock = 0
    /\ tr_pc = "idle"
    /\ tr_output = NoValue
    /\ b_files \in Batches
    /\ b_form \in Forms
    /\ b_options = EmptyDict
    /\ b_preview = NoValue
    /\ b_index = 0
    /\ b_results = << >>
    /\ b_folder = EmptyDict
    /\ b_uuid = 0
    /\ b_response = NoValue
    /\ b_pc = "start"

\* lines 558-571: the request is refused when it carries no file, or only
\* files without a name; otherwise the options are built from the form
Receive ==
    /\ b_pc = "start"
    /\ IF b_files = << >>
       THEN /\ b_response' = [success |-> FALSE, error |-> "No files uploaded"]
            /\ b_pc' = "done"
            /\ b_options' = b_options
       ELSE IF \A i \in 1..Len(b_files) : b_files[i].filename = ""
       THEN /\ b_response' = [success |-> FALSE, error |-> "No files selected"]
            /\ b_pc' = "done"
            /\ b_options' = b_options
       ELSE /\ b_response' = b_response
            /\ b_pc' = "loop"
            /\ b_options' = ApiOptions(b_form)
    /\ UNCHANGED <<b_files, b_index, b_results, b_folder, b_uuid, b_form, b_preview,
                   amtVars, stdVars, pipeVars, dateVars>>

\* the entry of a file the loop does not process
InvalidEntry(file) ==
    [success |-> FALSE, error |-> "Invalid file format",
     file_name |-> IF file.filename # "" THEN file.filename ELSE "Unknown"]

\* one turn of the loop of lines 575-628
HandleFile ==
    /\ b_pc = "loop"
    /\ b_index < Len(b_files)
    /\ \E file \in {b_files[b_index + 1]} :
       \E filename \in {secure_filename(file.filename)} :
       \E unique_filename \in {Uuid4(b_uuid) \o "_" \o filename} :
       \E result \in {transform_statement([path |-> UploadDir \o unique_filename,
                                            readable |-> file.readable,
                                            sheet |-> file.sheet],
                                           b_options, bank_formats, clock)} :
       \E generated \in {IF result.success
                          THEN generate_standardized_file(
                                   result, UploadDir \o "standardized_" \o filename, b_options)
                          ELSE Raise("")} :
       LET saved == DictSet(b_folder, unique_filename, file.sheet)
           output_filename == "standardized_" \o filename
       IN IF file.filename # "" /\ allowed_file(file.filename)
          THEN /\ b_uuid' = b_uuid + 1
               /\ IF ~result.success
                  THEN /\ b_results' = Append(b_results, result)
                       /\ b_folder' = DictRemove(saved, unique_filename)
                       /\ clock' = clock
                  ELSE IF generated.ok
                  THEN /\ b_results' = Append(b_results,
                                          [output_file |-> output_filename,
                                           download_ready |-> TRUE] @@ result)
                       /\ b_folder' = DictRemove(DictSet(saved, output_filename, generated.value),
                                                 unique_filename)
                       /\ clock' = clock + 1
                  ELSE /\ b_results' = Append(b_results,
                                          [success |-> FALSE, error |-> generated.error,
                                           file_name |-> file.filename])
                       /\ b_folder' = saved
                       /\ clock' = clock + 1
          ELSE /\ b_results' = Append(b_results, InvalidEntry(file))
               /\ UNCHANGED <<b_uuid, b_folder, clock>>
    /\ b_index' = b_index + 1
    /\ UNCHANGED <<b_files, b_options, b_response, b_pc, b_form, b_preview, amtVars, stdVars,
                   dateVars, bank_formats, tr_file, tr_options, tr_raw_data, tr_format_info,
                   tr_account_info, tr_transactions, tr_standardized, tr_error, tr_result,
                   tr_pc, tr_output>>

\* lines 630-635
Respond ==
    /\ b_pc = "loop"
    /\ b_index = Len(b_files)
    /\ b_response' =
           [success |-> TRUE,
            results |-> b_results,
            total_processed |-> Cardinality({i \in 1..Len(b_results) : b_results[i].success}),
            total_failed |-> Cardinality({i \in 1..Len(b_results) : ~b_results[i].success})]
    /\ b_pc' = "done"
    /\ UNCHANGED <<b_files, b_options, b_index, b_results, b_folder, b_uuid, b_form, b_preview,
                   amtVars, stdVars, pipeVars, dateVars>>

\* a cell of a sheet read back by pd.read_excel: a cell written from None,
\* NaN or '' holds nothing and comes back as NaN
ReadExcelValue(v) ==
    IF v.k \in {"none", "nan"} \/ (v.k = "str" /\ v.s = "") THEN CNaN ELSE v

\* str(row.iloc[0]).strip() of a Metadata row
FieldText(label) == Strip(PyStr(ReadExcelValue(CStr(label))))

\* the key the loop of lines 671-683 assigns for a row with this field text
PreviewKey(field) ==
    IF Contains(field, "Account Number") THEN "account_number"
    ELSE IF Contains(field, "Account Name") THEN "account_name"
    ELSE IF Contains(field, "Original Format") THEN "format"
    ELSE ""

\* account_info and format_info after the loop over the rows of the Metadata
\* sheet: each key holds str(row.iloc[1]).strip() of the last row assigning it
ReadMetadata(rows) ==
    LET assigned(key) == {n \in 1..Len(rows) : PreviewKey(FieldText(rows[n][1])) = key}
        last(key) == CHOOSE n \in assigned(key) : \A k \in assigned(key) : k <= n
        value(key) == Strip(PyStr(ReadExcelValue(rows[last(key)][2])))
    IN [account_info |->
            [key \in {k \in {"account_number", "account_name"} : assigned(k) # {}} |->
                value(key)],
        format |-> IF assigned("format") # {} THEN value("format") ELSE "Standardized"]

\* preview_file on the files of the upload folder, for a workbook the
\* projector wrote; of the JSON body, 'data' and 'date_range', which are
\* computed from the cells of the Transactions sheet, are left out
preview_file(filename, folder) ==
    LET name == secure_filename(filename)
    IN IF name \notin DOMAIN folder THEN [success |-> FALSE, error |-> "File not found"]
       ELSE LET workbook == folder[name]
                df == workbook["Transactions"]
                read == IF "Metadata" \in DOMAIN workbook
                        THEN ReadMetadata(workbook["Metadata"].rows)
                        ELSE [account_info |-> EmptyDict, format |-> "Standardized"]
            IN [success |-> TRUE,
                file_name |-> name,
                headers |-> df.columns,
                total_records |-> Len(df.rows),
                preview_records |-> IF Len(df.rows) < 20 THEN Len(df.rows) ELSE 20,
                account_info |-> read.account_info,
                format |-> read.format]

\* GET /api/download/<filename>: the workbook stored under the sanitized
\* name, or the 404 answer
download_file(filename, folder) ==
    IF secure_filename(filename) \in DOMAIN folder
    THEN Ok(folder[secure_filename(filename)])
    ELSE Raise("File not found")

\* the names the page asks a preview for: the output_file of an entry of the
\* response, and a name no file has
PreviewNames ==
    {b_results[i].output_file :
        i \in {k \in 1..Len(b_results) : "output_file" \in DOMAIN b_results[k]}}
    \cup {"standardized_gone.xlsx"}

\* GET /api/preview/<filename>, after the batch was answered
Preview ==
    /\ b_pc = "done"
    /\ \E filename \in PreviewNames : b_preview' = preview_file(filename, b_folder)
    /\ UNCHANGED <<b_files, b_options, b_index, b_results, b_folder, b_uuid, b_response, b_pc,
                   b_form, amtVars, stdVars, pipeVars, dateVars>>

BatchNext == Receive \/ HandleFile \/ Respond \/ Preview

SpecBatch == BatchInit /\ [][BatchNext]_vars

-----------------------------------------------------------------------------
(* Inputs of the amount functions *)

AmtAlphabet == {"0", "1", "6", ".", ",", "-", "(", "x"}

RECURSIVE StringsUpTo(_, _)
StringsUpTo(alphabet, n) ==
    IF n = 0 THEN {""}
    ELSE {""} \cup {c \o s : c \in alphabet, s \in StringsUpTo(alphabet, n - 1)}

\* texts seen in statements, among them the ones the tests use
AmtSamples == {"1,234.56", "1234.56", "₦1,234.56", "(500.00)", "-500.00",
               "$ 1 000", "£10.006", "€0.004", "-0.001", " ", "N/A",
               "1000.00", "+12.5", "50000"}

AmtNumbers == {CInt(FALSE, 0), CInt(FALSE, 50000000), CInt(TRUE, 1000),
               CFloat(FALSE, 0), CFloat(FALSE, 1234560), CFloat(TRUE, 500000),
               CFloat(FALSE, 10006), CFloat(TRUE, 1), CFloat(TRUE, 0)}

AmtInputs ==
    {CStr(s) : s \in StringsUpTo(AmtAlphabet, MaxAmtLen) \cup AmtSamples}
    \cup AmtNumbers
    \cup {CNone, CNaN, CDate(45292, "2024-01-01 00:00:00")}

AmtInit ==
    /\ DateIdle
    /\ StdIdle
    /\ PipeIdle
    /\ BatchIdle
    /\ a_in \in AmtInputs
    /\ a_parsed = NotRun
    /\ a_std = NotRun
    /\ a_std2 = NotRun
    /\ a_pc = "start"

\* amount = self._parse_amount(value)
AmtParse ==
    /\ a_pc = "start"
    /\ a_parsed' = parse_amount(a_in)
    /\ a_pc' = "parsed"
    /\ UNCHANGED <<a_in, a_std, a_std2, stdVars, pipeVars, batchVars, dateVars>>

\* text = self._standardize_amount(value)
AmtStandardize ==
    /\ a_pc = "parsed"
    /\ a_std' = CStr(standardize_amount(a_in))
    /\ a_pc' = "standardized"
    /\ UNCHANGED <<a_in, a_parsed, a_std2, stdVars, pipeVars, batchVars, dateVars>>

\* self._standardize_amount(text): the output standardized again
AmtRestandardize ==
    /\ a_pc = "standardized"
    /\ a_std2' = CStr(standardize_amount(a_std))
    /\ a_pc' = "done"
    /\ UNCHANGED <<a_in, a_parsed, a_std, stdVars, pipeVars, batchVars, dateVars>>

AmtNext == AmtParse \/ AmtStandardize \/ AmtRestandardize

SpecAmount == AmtInit /\ [][AmtNext]_vars

-----------------------------------------------------------------------------
(* The date function on its own *)

\* DD/MM/YYYY texts of every day number and month number of the year 2024
DayMonthTexts == {Pad(d, 2) \o "/" \o Pad(m, 2) \o "/2024" : d \in 1..31, m \in 1..12}

DateSamples == {"", "2024-01-15", "1/2/24", "15-01-2024", "13/13/2024", "00/01/2024",
                "N/A", "Sub total", "01/2024", "29/02/2023", "31/12/1999"}

DateNumbers == {CInt(FALSE, 0), CFloat(FALSE, 0), CInt(FALSE, 1000), CInt(FALSE, 1000000),
                CInt(FALSE, 1001000), CFloat(FALSE, 1000500), CInt(FALSE, 45292000),
                CFloat(FALSE, 45292750), CInt(TRUE, 45292000), CFloat(FALSE, 36526000),
                CInt(FALSE, 106753000), CInt(FALSE, 106754000), CInt(FALSE, 2000000000),
                CFloat(FALSE, 500), CInt(FALSE, 60000), CInt(FALSE, 61000)}

DateInputs ==
    {CStr(s) : s \in DayMonthTexts \cup DateSamples}
    \cup DateNumbers
    \cup {CNone, CNaN, CInf(FALSE), CDate(45292, "2024-01-01 00:00:00"),
          CDate(45337, "2024-02-15 00:00:00")}

DateTargets == {"DD/MM/YYYY", "MM/DD/YYYY", "YYYY-MM-DD", "DD-MM-YY"}

DateInit ==
    /\ AmtIdle
    /\ StdIdle
    /\ PipeIdle
    /\ BatchIdle
    /\ d_in \in DateInputs
    /\ d_target \in DateTargets
    /\ d_out = NotRun
    /\ d_out2 = NotRun
    /\ d_pc = "start"

\* text = self._standardize_date(value, target_format)
DateStandardize ==
    /\ d_pc = "start"
    /\ d_out' = CStr(standardize_date(d_in, d_target))
    /\ d_pc' = "standardized"
    /\ UNCHANGED <<d_in, d_target, d_out2, amtVars, stdVars, pipeVars, batchVars>>

\* self._standardize_date(text, target_format): the output standardized again
DateRestandardize ==
    /\ d_pc = "standardized"
    /\ d_out2' = CStr(standardize_date(d_out, d_target))
    /\ d_pc' = "done"
    /\ UNCHANGED <<d_in, d_target, d_out, amtVars, stdVars, pipeVars, batchVars>>

DateNext == DateStandardize \/ DateRestandardize

SpecDate == DateInit /\ [][DateNext]_vars

-----------------------------------------------------------------------------
(* Inputs of the standardizer: one raw transaction under one mapping *)



\* the column layouts: the mapping of the profile and the header label of
\* each kind of column ("" when the layout has no such column)
StdLayouts ==
    { [mapping |-> FcmbMapping, date |-> "Transaction Date", details |-> "Description",
       ref |-> "Instrument Code", debit |-> "Withdrawls", credit |-> "Deposits",
       balance |-> "Balance"],
      [mapping |-> GtbMapping, date |-> "TRA DATE", details |-> "REMARKS",
       ref |-> "NUBAN", debit |-> "DEBIT", credit |-> "CREDIT", balance |-> "CRNT BAL"],
      [mapping |-> GenericMapping(TextRow(GenericLabels), << >>), date |-> "Date",
       details |-> "Narration", ref |-> "Ref", debit |-> "Debit", credit |-> "Credit",
       balance |-> "Balance"],
      [mapping |-> GenericMapping(TextRow(AmountLabels), << >>), date |-> "Date",
       details |-> "Description", ref |-> "Reference", debit |-> "", credit |-> "",
       balance |-> "Balance"] }

\* no cell under this header: the key is not in the raw transaction
Missing == Val("missing", FALSE, 0, "")

StdCells ==
    [date : {Missing, CStr("01/01/2024"), CInt(FALSE, 45292000)},
     details : {Missing, CStr("POS PURCHASE"), CInt(FALSE, 12345000)},
     ref : {Missing, CStr("REF001"), CDate(45292, "2024-01-01 00:00:00")},
     debit : {Missing, CStr(""), CStr("500.00"), CNaN},
     credit : {Missing, CStr(""), CStr("1,000.00")},
     balance : {Missing, CStr("₦1,500.00")},
     amount : {Missing, CStr("-250.00"), CStr("250.006"), CStr(""), CStr("(75.50)"),
               CNaN, CInt(TRUE, 1000)}]

\* the raw transaction of a layout with the given cells
StdTransaction(layout, cells) ==
    LET put(d, label, cell) == IF label = "" \/ cell = Missing THEN d ELSE DictSet(d, label, cell)
    IN put(put(put(put(put(put(put(EmptyDict,
           layout.date, cells.date), layout.details, cells.details), layout.ref, cells.ref),
           layout.debit, cells.debit), layout.credit, cells.credit),
           layout.balance, cells.balance), "Amount", cells.amount)

StdInit ==
    /\ AmtIdle
    /\ DateIdle
    /\ PipeIdle
    /\ BatchIdle
    /\ \E layout \in StdLayouts, cells \in StdCells :
          /\ s_mapping = layout.mapping
          /\ s_txn = StdTransaction(layout, cells)
    /\ s_options \in Options
    /\ s_applied = EmptyDict
    /\ s_filled = EmptyDict
    /\ s_out = EmptyDict
    /\ s_out2 = EmptyDict
    /\ s_pc = "start"

\* the mapping loop of _standardize_transactions
StdApplyMapping ==
    /\ s_pc = "start"
    /\ s_applied' = ApplyMapping(s_mapping, s_txn, s_options, EmptyDict)
    /\ s_pc' = "applied"
    /\ UNCHANGED <<s_mapping, s_txn, s_options, s_filled, s_out, s_out2, amtVars, pipeVars, batchVars, dateVars>>

\* the loop that ensures every standard column exists
StdBackfill ==
    /\ s_pc = "applied"
    /\ s_filled' = Backfill(s_applied)
    /\ s_pc' = "filled"
    /\ UNCHANGED <<s_mapping, s_txn, s_options, s_applied, s_out, s_out2, amtVars, pipeVars, batchVars, dateVars>>

\* self._handle_debit_credit_logic(standard_transaction, transaction)
StdDebitCredit ==
    /\ s_pc = "filled"
    /\ s_out' = handle_debit_credit_logic(s_filled, s_txn)
    /\ s_pc' = "done"
    /\ UNCHANGED <<s_mapping, s_txn, s_options, s_applied, s_filled, s_out2, amtVars, pipeVars, batchVars, dateVars>>

\* self._handle_debit_credit_logic(standard_transaction, transaction), called
\* again on the standard_transaction it has worked on
StdDebitCreditAgain ==
    /\ s_pc = "done"
    /\ s_out2' = handle_debit_credit_logic(s_out, s_txn)
    /\ s_pc' = "again"
    /\ UNCHANGED <<s_mapping, s_txn, s_options, s_applied, s_filled, s_out, amtVars, pipeVars, batchVars, dateVars>>

StdNext == StdApplyMapping \/ StdBackfill \/ StdDebitCredit \/ StdDebitCreditAgain

SpecStd == StdInit /\ [][StdNext]_vars

-----------------------------------------------------------------------------
(* Properties of the amount functions, checked under SpecAmount *)

\* text of the shape -?d+.dd
TwoDecimalText(s) ==
    LET b == IF s # "" /\ Head(s) = "-" THEN Tail(s) ELSE s
    IN /\ Len(b) >= 4
       /\ CharAt(b, Len(b) - 2) = "."
       /\ AllDigits(SubSeq(b, 1, Len(b) - 3))
       /\ AllDigits(SubSeq(b, Len(b) - 1, Len(b)))

\* C7: amount standardization of an empty-string or absent input returns
\* the empty string, never "0.00", and of every other input returns
\* parseAmount of it formatted with exactly two decimals.
C7_EmptyOrTwoDecimals ==
    a_pc \in {"standardized", "done"} =>
        IF a_in = CStr("") \/ a_in = CNone
        THEN a_std = CStr("")
        ELSE /\ TwoDecimalText(a_std.s)
             /\ a_std = CStr(Format2f(a_parsed))

\* C8: amount standardization is idempotent: standardizing the output of
\* _standardize_amount again returns that output unchanged.
C8_StandardizeAmountIdempotent ==
    a_pc = "done" => a_std2 = a_std

C8_Witness ==
    /\ a_pc = "done"
    /\ a_in = CStr("1,234.56")
    /\ a_std = CStr("1234.56")
    /\ a_std2 = CStr("1234.56")

\* C9: parseAmount returns a numeric cell unchanged as a number; for text
\* it removes currency symbols, commas, whitespace and parentheses and
\* parses the rest as a decimal (a parenthesised amount parses as
\* positive); unparseable text and any cell that is neither text nor
\* numeric give 0.0; it never raises.
C9_ParseAmount ==
    a_pc # "start" =>
        /\ a_parsed.k \in {"float", "nan", "inf"}
        /\ IsNumeric(a_in) =>
               /\ a_parsed.neg = a_in.neg /\ a_parsed.mag = a_in.mag
               /\ (a_in.k = "nan") = (a_parsed.k = "nan")
        /\ ~IsNumeric(a_in) /\ ~IsStr(a_in) => a_parsed = CFloat(FALSE, 0)
        /\ IsStr(a_in) =>
               LET rest == RemoveChars(a_in.s, "₦$£€, \t()")
               IN IF PyFloat(rest) = NoFloat
                  THEN a_parsed = CFloat(FALSE, 0)
                  ELSE a_parsed = PyFloat(rest)
        /\ a_in \in {CStr("₦1,234.56"), CStr("1,234.56")} =>
               a_parsed = CFloat(FALSE, 1234560)
        /\ a_in = CStr("(500.00)") => a_parsed = CFloat(FALSE, 500000)
        /\ a_in \in {CStr("N/A"), CStr("x"), CStr("1-"), CStr("")} =>
               a_parsed = CFloat(FALSE, 0)

C9_Witness ==
    /\ a_pc = "parsed"
    /\ a_in = CStr("₦1,234.56")
    /\ a_parsed = CFloat(FALSE, 1234560)

-----------------------------------------------------------------------------
(* Properties of the standardizer, checked under SpecStd *)

CanonicalFields == {"Tran Date", "Value Date", "Ref. No", "Transaction Details",
                    "Debit", "Credit", "Balance"}

C4_AllValuesText ==
    s_pc = "done" => \A f \in DOMAIN s_out : s_out[f].k = "str"

\* C6: when the raw transaction has a field 'Amount' and the mapping
\* produced neither a Debit nor a Credit value, a negative parsed amount
\* sets Debit to its absolute value with two decimals and Credit to '', a
\* non-negative one sets Credit to the formatted value and Debit to '';
\* after the fallback Debit and Credit are never both non-empty, and the
\* fallback never fires when the mapping produced a Debit or Credit value.
C6_AmountFallback ==
    s_pc = "done" =>
        LET produced(f) == f \in DOMAIN s_applied /\ s_applied[f] # CStr("")
            fires == "Amount" \in DOMAIN s_txn /\ ~produced("Debit") /\ ~produced("Credit")
            amount == parse_amount(s_txn["Amount"])
        IN /\ fires /\ LtZero(amount) =>
                 /\ s_out["Debit"] = CStr(Format2f(Abs(amount)))
                 /\ TwoDecimalText(s_out["Debit"].s)
                 /\ Head(s_out["Debit"].s) # "-"
                 /\ s_out["Credit"] = CStr("")
           /\ fires /\ ~LtZero(amount) /\ amount.k # "nan" =>
                 /\ s_out["Credit"] = CStr(Format2f(amount))
                 /\ TwoDecimalText(s_out["Credit"].s)
                 /\ s_out["Debit"] = CStr("")
           /\ fires => ~(s_out["Debit"] # CStr("") /\ s_out["Credit"] # CStr(""))
           /\ ~fires => s_out["Debit"] = s_filled["Debit"] /\ s_out["Credit"] = s_filled["Credit"]

C6_Witness ==
    /\ s_pc = "done"
    /\ "Amount" \in DOMAIN s_txn
    /\ s_txn["Amount"] = CStr("-250.00")
    /\ "Debit" \in DOMAIN s_applied /\ s_applied["Debit"] = CStr("")
    /\ s_out["Debit"] = CStr("250.00")
    /\ s_out["Credit"] = CStr("")

-----------------------------------------------------------------------------
(* Claims on transform_statement *)

\* the lower-cased text of rows 0..19 of the grid
Corpus20(raw_data) ==
    Lower(JoinSpace(GridStrings([n \in 1..(IF Len(raw_data) < 20 THEN Len(raw_data) ELSE 20) |->
                                    raw_data[n]])))

\* the places in the registry of the non-generic profiles all of whose
\* identifying texts occur in the corpus, whatever their case
FullMatches(raw_data, formats) ==
    {k \in 1..Len(formats) :
        /\ formats[k][1] # "GENERIC"
        /\ \A i \in 1..Len(formats[k][2].identifiers) :
               Contains(Corpus20(raw_data), Lower(formats[k][2].identifiers[i]))}

\* some row among rows 0..24 has at least 4 cells with a financial-header token
SomeHeaderRow(raw_data) ==
    \E n \in 1..Len(raw_data) :
        n <= 25 /\ Cardinality({j \in 1..Len(raw_data[n]) : IsHeaderCell(raw_data[n][j])}) >= 4

\* C1: format detection returns the first non-generic profile in registry
\* order (FCMB_FORMAT_1 before GTB_ODS_FORMAT) whose identifying texts all
\* occur, case-insensitively, in the text of the first 20 rows, also when a
\* row qualifies as a generic header row; the generic profile is returned
\* only when no registered profile fully matches.
C1_DetectionPriority ==
    tr_pc = "detected" =>
        LET matches == FullMatches(tr_raw_data, bank_formats)
        IN IF matches # {}
           THEN LET k == CHOOSE m \in matches : \A n \in matches : m <= n
                IN /\ tr_format_info.key = bank_formats[k][1]
                   /\ tr_format_info.name = bank_formats[k][2].name
                   /\ tr_format_info.header_row = bank_formats[k][2].header_row
                   /\ tr_format_info.mapping = bank_formats[k][2].mapping
           ELSE tr_format_info.key = "GENERIC"

\* both registered profiles match and a row qualifies as a generic header
\* row: the first profile of the registry is returned
C1_Witness ==
    /\ tr_pc = "detected"
    /\ FullMatches(tr_raw_data, bank_formats) = {1, 2}
    /\ SomeHeaderRow(tr_raw_data)
    /\ tr_format_info.key = "FCMB_FORMAT_1"

\* C2: when no registered profile matches and no row among rows 0..24 has
\* at least 4 cells with a financial-header token, transform_statement
\* returns success = false, the error 'Unable to locate transaction header
\* row' and the file name, and nothing else: no account info and no
\* transactions, although the account information was already extracted.
C2_HeaderNotFound ==
    (/\ tr_pc = "done"
     /\ tr_raw_data # NoValue
     /\ FullMatches(tr_raw_data, bank_formats) = {}
     /\ ~SomeHeaderRow(tr_raw_data))
    => tr_result = [success |-> FALSE,
                    error |-> "Unable to locate transaction header row",
                    file_name |-> PathName(tr_file.path)]

\* a statement without a header row whose account line was read
C2_Witness ==
    /\ tr_pc = "done"
    /\ tr_raw_data # NoValue
    /\ FullMatches(tr_raw_data, bank_formats) = {}
    /\ ~SomeHeaderRow(tr_raw_data)
    /\ "opening_balance" \in DOMAIN tr_account_info
    /\ tr_result.success = FALSE
    /\ DOMAIN tr_result = {"success", "error", "file_name"}

\* the indices (0-based) of the rows under the header row that are accepted
\* as transactions
AcceptedRows(raw_data, header_row) ==
    {i \in (header_row + 1)..(Len(raw_data) - 1) :
        /\ ~IsBlankRow(raw_data[i + 1])
        /\ HasDateOrAmount(raw_data[i + 1])
        /\ DOMAIN RowTransaction(raw_data[header_row + 1], raw_data[i + 1], 0, EmptyDict) # {}}

\* C5: the standardized transactions are in source row order: transaction N
\* is the standardized form of the N-th accepted row under the header row,
\* no row at or before the header row is emitted, none is dropped,
\* duplicated or moved, and records_processed is the number of accepted rows.
C5_RowOrder ==
    (tr_pc = "done" /\ tr_result.success) =>
        LET header_row == tr_format_info.header_row
            accepted == AcceptedRows(tr_raw_data, header_row)
            nth(N) == CHOOSE i \in accepted : Cardinality({j \in accepted : j < i}) = N - 1
        IN /\ Len(tr_result.transactions) = Cardinality(accepted)
           /\ tr_result.records_processed = Cardinality(accepted)
           /\ \A N \in 1..Len(tr_result.transactions) :
                  tr_result.transactions[N] =
                      StandardizeOne(RowTransaction(tr_raw_data[header_row + 1],
                                                    tr_raw_data[nth(N) + 1], 0, EmptyDict),
                                     tr_format_info.mapping, tr_options)

\* two different rows are accepted and a row between them is not
C5_Witness ==
    /\ tr_pc = "done"
    /\ tr_result.success
    /\ tr_format_info.header_row >= 2
    /\ tr_result.records_processed = 2
    /\ tr_result.transactions[1] # tr_result.transactions[2]
    /\ \E i \in AcceptedRows(tr_raw_data, tr_format_info.header_row) :
           /\ i + 2 \in AcceptedRows(tr_raw_data, tr_format_info.header_row)
           /\ i + 1 \notin AcceptedRows(tr_raw_data, tr_format_info.header_row)

-----------------------------------------------------------------------------
(* Claims on the batch endpoint *)

\* the file cannot be turned into an output: its extension is not allowed,
\* it cannot be read, its layout is not recognised, or it has no
\* transaction to write
FileFails(file) ==
    \/ file.filename = ""
    \/ ~Contains(file.filename, ".")
    \/ Lower(AfterLastDot(file.filename)) \notin {"xlsx", "xls", "ods"}
    \/ ~file.readable
    \/ /\ FullMatches(LoadRows(file.sheet, CNone), InitialBankFormats) = {}
       /\ ~SomeHeaderRow(LoadRows(file.sheet, CNone))
    \/ \A n \in 1..Len(file.sheet) : n <= 3 \/ file.sheet[n] = SheetRow(<< >>)

\* entry i of the response is the one entry of file i, the name it carries
\* being one of `names`
EntryOf(entry, file, names) ==
    /\ FileFails(file) => ~entry.success
    /\ ~entry.success =>
           /\ DOMAIN entry = {"success", "error", "file_name"}
           /\ entry.error # ""
           /\ entry.file_name \in names
    /\ entry.success => entry.output_file = "standardized_" \o secure_filename(file.filename)

\* the batch was processed: one entry per file, in upload order, and the
\* counts add up
BatchAnswered(names(_)) ==
    /\ b_response.success = TRUE
    /\ Len(b_response.results) = Len(b_files)
    /\ \A i \in 1..Len(b_files) : EntryOf(b_response.results[i], b_files[i], names(b_files[i]))
    /\ b_response.total_processed + b_response.total_failed = Len(b_files)

\* the batch carries a file that has a name
FilesSelected == \E i \in 1..Len(b_files) : b_files[i].filename # ""

\* the name of the file as uploaded ('Unknown' for a file without a name)
UploadedName(file) == {IF file.filename = "" THEN "Unknown" ELSE file.filename}

\* the uploaded name, or the name of the copy stored in the upload folder
UploadedOrStoredName(file) ==
    UploadedName(file)
    \cup {Uuid4(n) \o "_" \o secure_filename(file.filename) : n \in 0..Len(b_files)}

\* C10: in a batch every uploaded file yields exactly one result entry, in
\* upload order; a file that fails (extension not allowed, unreadable,
\* layout not recognised, error while generating the output) yields one
\* success = false entry with an error text and its file name, the other
\* files are still processed, the response has success = true and
\* total_processed + total_failed is the number of uploaded files.
C10_BatchIsolation ==
    (b_pc = "done" /\ FilesSelected) => BatchAnswered(UploadedName)

\* the same with the file name of a failed entry being the uploaded name or
\* the name of the stored copy
BatchIsolationStoredName ==
    (b_pc = "done" /\ FilesSelected) => BatchAnswered(UploadedOrStoredName)

-----------------------------------------------------------------------------
(* Claims on the registry *)

\* a result without its timestamp
Untimed(result) ==
    IF result.success THEN [result EXCEPT !.metadata.processed_at = 0] ELSE result

\* C11: after any sequence of transforms on one transformer the format
\* registry (keys, identifiers, header rows, metadata rows, mappings) equals
\* its initial value, and the result of a transform is, apart from the
\* timestamp, the result the same file and options give on a new
\* transformer, whatever was transformed before.
C11_RegistryUnchanged ==
    /\ bank_formats = InitialBankFormats
    /\ tr_pc = "done" =>
           Untimed(tr_result)
               = Untimed(transform_statement(tr_file, tr_options, InitialBankFormats, 0))

\* a later transform, after a registered profile was detected and returned
C11_Witness ==
    /\ tr_pc = "done"
    /\ clock >= 2
    /\ tr_result.success
    /\ tr_result.original_format = "FCMB Statement Format 1"
    /\ tr_result.metadata.processed_at >= 1

-----------------------------------------------------------------------------
(* Claims on the output file *)

\* the options ask for the Metadata sheet, or say nothing about it
MetadataRequested(options) ==
    "include_metadata" \in DOMAIN options => options["include_metadata"]

\* the labels of the rows that carry a value of the result, in the order of
\* the Metadata sheet
MetadataLabels ==
    <<"Account Number", "Account Name", "Opening Balance", "Closing Balance",
      "Original Format", "Records Processed", "Processed At">>

\* the rows of the sheet whose label is one of MetadataLabels
LabelRows(sheet) ==
    SelectSeq([n \in 1..Len(sheet.rows) |-> sheet.rows[n][1]],
              LAMBDA label : \E k \in 1..Len(MetadataLabels) : MetadataLabels[k] = label)

\* the workbook has a Metadata sheet with the label rows in order
HasMetadataSheet(workbook) ==
    /\ "Metadata" \in DOMAIN workbook
    /\ LabelRows(workbook["Metadata"]) = MetadataLabels

\* C12: whenever metadata inclusion is requested, or left at its default,
\* the written workbook has a Metadata sheet, also when no account-info field
\* was extracted, with the label rows Account Number, Account Name, Opening
\* Balance, Closing Balance, Original Format, Records Processed, Processed At
\* in this order; when inclusion is not requested there is no Metadata sheet.
C12_MetadataWhenRequested ==
    (tr_output # NoValue /\ tr_output.ok) =>
        IF MetadataRequested(tr_options)
        THEN HasMetadataSheet(tr_output.value)
        ELSE "Metadata" \notin DOMAIN tr_output.value

\* the same, with the sheet written only for a result whose account info
\* holds at least one field
MetadataWhenAccountInfo ==
    (tr_output # NoValue /\ tr_output.ok) =>
        IF MetadataRequested(tr_options) /\ DOMAIN tr_result.account_info # {}
        THEN HasMetadataSheet(tr_output.value)
        ELSE "Metadata" \notin DOMAIN tr_output.value

\* the seven columns in order, one row per transaction in transaction order
IsTransactionsSheet(sheet, transactions) ==
    /\ sheet.columns = <<"Tran Date", "Value Date", "Ref. No", "Transaction Details",
                         "Debit", "Credit", "Balance">>
    /\ Len(sheet.rows) = Len(transactions)
    /\ \A n \in 1..Len(transactions) :
           \A h \in 1..7 : sheet.rows[n][h] = transactions[n][sheet.columns[h]]

\* C13: for every successful result, one with zero transactions included,
\* the projector writes a Transactions sheet whose columns are exactly Tran
\* Date, Value Date, Ref. No, Transaction Details, Debit, Credit, Balance in
\* this order, with one row per standardized transaction in transaction
\* order.
C13_TransactionsSheet ==
    tr_output # NoValue =>
        /\ tr_output.ok
        /\ "Transactions" \in DOMAIN tr_output.value
        /\ IsTransactionsSheet(tr_output.value["Transactions"], tr_result.transactions)

\* the same for the results that hold at least one transaction
TransactionsSheetWhenAny ==
    (tr_output # NoValue /\ tr_result.transactions # << >>) =>
        /\ tr_output.ok
        /\ "Transactions" \in DOMAIN tr_output.value
        /\ IsTransactionsSheet(tr_output.value["Transactions"], tr_result.transactions)

-----------------------------------------------------------------------------
(* Claims on the preview of the output file *)

\* the Metadata rows of the workbook the last preview read
PreviewedRows == b_folder[b_preview.file_name]["Metadata"].rows

\* a preview was answered from a workbook that has a Metadata sheet
PreviewedMetadata ==
    /\ b_preview # NoValue
    /\ b_preview.success
    /\ "Metadata" \in DOMAIN b_folder[b_preview.file_name]

\* the rows whose label contains the text
RowsWith(rows, text) == {n \in 1..Len(rows) : Contains(rows[n][1], text)}

\* some entry of the response names the previewed file and holds, under the
\* key, the value of Metadata row n ('' for a field not extracted)
WrittenFrom(rows, n, key) ==
    \E i \in 1..Len(b_results) :
        /\ b_results[i].success
        /\ b_results[i].output_file = b_preview.file_name
        /\ rows[n][2] = IF key = "format" THEN CStr(b_results[i].original_format)
                        ELSE GetOrEmpty(b_results[i].account_info, key)

\* what the preview holds under the key
Previewed(key) ==
    IF key = "format" THEN b_preview.format
    ELSE IF key \in DOMAIN b_preview.account_info THEN b_preview.account_info[key]
    ELSE "(none)"

\* the label occurs in exactly one label row, that row carries the value of
\* the result, and the preview holds text(value) under the key
LabelRoundTrip(rows, label, key, text(_)) ==
    /\ Cardinality(RowsWith(rows, label)) = 1
    /\ \A n \in RowsWith(rows, label) :
           /\ rows[n][1] = label
           /\ WrittenFrom(rows, n, key)
           /\ Previewed(key) = text(rows[n][2])

\* the three labels the preview matches on
PreviewRoundTrip(text(_)) ==
    PreviewedMetadata =>
        /\ LabelRoundTrip(PreviewedRows, "Account Number", "account_number", text)
        /\ LabelRoundTrip(PreviewedRows, "Account Name", "account_name", text)
        /\ LabelRoundTrip(PreviewedRows, "Original Format", "format", text)

\* the text of a value as written
WrittenText(v) == PyStr(v)

\* the text of a value, 'nan' for the empty text
WrittenTextOrNan(v) == IF v = CStr("") THEN "nan" ELSE PyStr(v)

\* C14: each label the preview matches on ('Account Number', 'Account
\* Name', 'Original Format') occurs in exactly one label row of the Metadata
\* sheet the projector wrote, that row carries the corresponding value, and
\* the account number, account name and format of the preview are the ones
\* the projector wrote.
C14_PreviewReadsMetadata == PreviewRoundTrip(WrittenText)

\* the same, with a field that was not extracted, written as '', previewed
\* as 'nan'
PreviewReadsMetadataOrNan == PreviewRoundTrip(WrittenTextOrNan)

\* a preview that shows an account number and an account name
PreviewOfNamedAccount ==
    /\ PreviewedMetadata
    /\ b_preview.account_info = [account_number |-> "0123456789",
                                 account_name |-> "ADA OBI NWOSU LTD"]

-----------------------------------------------------------------------------
(* Claims on the defaults of the options *)

\* the options of the request have been built from the form
OptionsBuilt == b_options # EmptyDict

\* the date format is the one of the form, DD/MM/YYYY without one
DateFormatDefault ==
    OptionsBuilt =>
        b_options["date_format"] = IF "date_format" \in DOMAIN b_form
                                   THEN b_form["date_format"] ELSE "DD/MM/YYYY"

\* C15: when the caller supplies no include_metadata value, metadata
\* inclusion defaults to true, and when it supplies no date_format the
\* format defaults to DD/MM/YYYY, in the core and in the options the batch
\* endpoint builds from the request.
C15_OptionDefaults ==
    /\ DateFormatDefault
    /\ (OptionsBuilt /\ "include_metadata" \notin DOMAIN b_form) =>
           /\ b_options["include_metadata"] = TRUE
           /\ \A i \in 1..Len(b_results) :
                  (b_results[i].success /\ DOMAIN b_results[i].account_info # {}) =>
                      "Metadata" \in DOMAIN b_folder[b_results[i].output_file]

-----------------------------------------------------------------------------
(* Claims on the loader *)

\* the same sheet saved as the other kind of file
OtherKind(f) ==
    [f EXCEPT !.path = UploadDir \o PathStem(f.path)
                       \o (IF Lower(PathSuffix(f.path)) = ".ods" THEN ".xlsx" ELSE ".ods")]

\* the raw transactions of a grid, << >> when the extraction raises
RawTransactionsOf(raw_data) ==
    extract_transactions(raw_data, detect_format(raw_data, InitialBankFormats)).value

\* the cells of the sheet that hold nothing
AbsentCells(sheet) ==
    {<<i, j>> \in (1..Len(sheet)) \X (1..Len(GenericLabels)) : sheet[i][j] = CAbsent}

\* C16: the loader represents a cell that holds nothing in the same way
\* whichever kind of file the grid came from (.xlsx or .ods), so the same
\* sheet loaded from either kind gives the same grid, the same accepted
\* rows and the same raw transactions.
C16_SameAbsentCell ==
    (tr_raw_data # NoValue /\ read_file(OtherKind(tr_file)).ok) =>
        /\ \A c \in AbsentCells(tr_file.sheet) :
               tr_raw_data[c[1]][c[2]] = read_file(OtherKind(tr_file)).value[c[1]][c[2]]
        /\ tr_transactions # NoValue =>
               tr_transactions = RawTransactionsOf(read_file(OtherKind(tr_file)).value)

-----------------------------------------------------------------------------
(* Claims on the account information *)

MinOf(S) == CHOOSE n \in S : \A m \in S : n <= m
MaxOf(S) == CHOOSE n \in S : \A m \in S : m <= n

\* the metadata rows of the bound profile that lie within the grid, in the
\* order of the profile
ScannedRows ==
    LET rows == IF "account_info_rows" \in DOMAIN tr_format_info
                THEN tr_format_info.account_info_rows ELSE << >>
        inside == SelectSeq(rows, LAMBDA row_index : row_index < Len(tr_raw_data))
    IN [n \in 1..Len(inside) |-> tr_raw_data[inside[n] + 1]]

\* the account information has been extracted
InfoExtracted == tr_format_info # NoValue /\ tr_pc # "detected"

\* the text of a row: its cells that are not None, joined by spaces
RowText(row) == JoinSpace(RowStrings(row))

\* the account number a row offers, "" if none
RowNumber(row) == AccountNumberMatch(RowText(row))

\* the account name a row offers: its first run of upper-case letters and
\* spaces if that run does not hold 'ACCOUNT', "" otherwise
RowName(row) ==
    LET run == Strip(AccountNameMatch(RowText(row)))
    IN IF Contains(run, "ACCOUNT") THEN "" ELSE run

\* the cells (0-based) of a row that assign the balance key
BalanceCells(row, key) == {i \in 0..(Len(row) - 1) : BalanceKey(row, i) = key}

\* the field is set iff some scanned row offers a value, and holds the value
\* the chosen one of these rows offers
FieldFrom(key, offers(_), value(_), choose(_)) ==
    LET rows == {n \in 1..Len(ScannedRows) : offers(ScannedRows[n])}
    IN /\ key \in DOMAIN tr_account_info <=> rows # {}
       /\ rows # {} => tr_account_info[key] = value(ScannedRows[choose(rows)])

\* account number and account name are those of the first row that offers one
NumberAndNameFromFirst ==
    /\ FieldFrom("account_number", LAMBDA row : RowNumber(row) # "",
                 LAMBDA row : CStr(RowNumber(row)), MinOf)
    /\ FieldFrom("account_name", LAMBDA row : RowName(row) # "",
                 LAMBDA row : CStr(RowName(row)), MinOf)

\* a balance is that of the chosen cell of the chosen row, among the cells
\* that assign it
BalanceFrom(key, choose(_)) ==
    FieldFrom(key, LAMBDA row : BalanceCells(row, key) # {},
              LAMBDA row : parse_amount(row[choose(BalanceCells(row, key)) + 2]), choose)

\* C17: over the scanned metadata rows each field of the account information
\* (account number, account name, opening balance, closing balance) keeps
\* the value of its first match, in row order and within a row in cell
\* order: once a field is set no later row and no later cell overwrites it.
C17_FirstMatchKept ==
    InfoExtracted =>
        /\ NumberAndNameFromFirst
        /\ BalanceFrom("opening_balance", MinOf)
        /\ BalanceFrom("closing_balance", MinOf)

\* the same, with each balance keeping the value of its last match
FirstMatchKeptLastBalance ==
    InfoExtracted =>
        /\ NumberAndNameFromFirst
        /\ BalanceFrom("opening_balance", MaxOf)
        /\ BalanceFrom("closing_balance", MaxOf)

RECURSIVE NameRuns(_, _)
\* the matches of the name pattern in the text from position `from` on, from
\* left to right, each stripped
NameRuns(text, from) ==
    LET starts == {p \in NameStarts(text) : p >= from}
    IN IF starts = {} THEN << >>
       ELSE <<Strip(SubSeq(text, MinOf(starts), MaxOf(NameEnds(text, MinOf(starts)))))>>
            \o NameRuns(text, MaxOf(NameEnds(text, MinOf(starts))) + 1)

\* the runs of a row that do not hold 'ACCOUNT', from left to right
RunsWithoutAccount(row) ==
    SelectSeq(NameRuns(RowText(row), 1), LAMBDA run : ~Contains(run, "ACCOUNT"))

\* C18: the account name is the first run of upper-case letters and spaces
\* of length 11 or more, over the scanned metadata rows in order and within
\* a row from left to right, that does not contain 'ACCOUNT'; runs that
\* contain 'ACCOUNT' are skipped and never stored as the name.
C18_FirstRunWithoutAccount ==
    InfoExtracted =>
        /\ FieldFrom("account_name", LAMBDA row : RunsWithoutAccount(row) # << >>,
                     LAMBDA row : CStr(Head(RunsWithoutAccount(row))), MinOf)
        /\ "account_name" \in DOMAIN tr_account_info =>
               ~Contains(tr_account_info["account_name"].s, "ACCOUNT")

\* the same, with only the first run of each row looked at
FirstRunOfRowWithoutAccount ==
    InfoExtracted =>
        /\ FieldFrom("account_name", LAMBDA row : RowName(row) # "",
                     LAMBDA row : CStr(RowName(row)), MinOf)
        /\ "account_name" \in DOMAIN tr_account_info =>
               ~Contains(tr_account_info["account_name"].s, "ACCOUNT")

\* the cells (0-based) of a row that are text, hold the label in whatever
\* case, and have a next cell in the row
LabelCells(row, label) ==
    {i \in 0..(Len(row) - 2) : IsStr(row[i + 1]) /\ Contains(Lower(row[i + 1].s), label)}

\* the cells that hold the label and not the other one
LabelOnlyCells(row, label, other) == LabelCells(row, label) \ LabelCells(row, other)

\* the balance is set iff some scanned row has such a cell, and it is
\* parse_amount of the cell next to one of them
BalanceSet(key, cells(_)) ==
    /\ key \in DOMAIN tr_account_info <=>
           \E n \in 1..Len(ScannedRows) : cells(ScannedRows[n]) # {}
    /\ key \in DOMAIN tr_account_info =>
           \E n \in 1..Len(ScannedRows) : \E i \in cells(ScannedRows[n]) :
               tr_account_info[key] = parse_amount(ScannedRows[n][i + 2])

\* the extraction of the account information has not raised: what is
\* raised after the detection is raised by _extract_transactions
InfoNeverFails ==
    (tr_pc = "except" /\ tr_format_info # NoValue) =>
        tr_error \in {"Unable to locate transaction header row", "list index out of range"}

\* C19 as stated: the opening (closing) balance is set exactly when a text
\* cell of a scanned metadata row contains 'opening balance' ('closing
\* balance'), in whatever case, and has a next cell in the row; its value is
\* parse_amount of that next cell; with no match the field is absent, row
\* indices beyond the grid are skipped and the extraction never fails.
C19_BalancesAsStated ==
    /\ InfoNeverFails
    /\ InfoExtracted =>
           /\ BalanceSet("opening_balance", LAMBDA row : LabelCells(row, "opening balance"))
           /\ BalanceSet("closing_balance", LAMBDA row : LabelCells(row, "closing balance"))

\* C19: the opening balance is set exactly when a text cell of a scanned
\* metadata row contains 'opening balance', in whatever case, and has a next
\* cell in the row; the closing balance exactly when such a cell contains
\* 'closing balance' and does not contain 'opening balance'; the value is
\* parse_amount of the cell next to such a cell; with no match the field is
\* absent, row indices beyond the grid are skipped and the extraction never
\* fails.
C19_BalancesSet ==
    /\ InfoNeverFails
    /\ InfoExtracted =>
           /\ BalanceSet("opening_balance", LAMBDA row : LabelCells(row, "opening balance"))
           /\ BalanceSet("closing_balance",
                         LAMBDA row : LabelOnlyCells(row, "closing balance", "opening balance"))

\* the row ['Opening Balance', 50000] of the tests, in a short statement
\* whose profile names rows beyond the grid: the opening balance is 50000.0
\* and there is no closing balance
C19_Witness ==
    /\ InfoExtracted
    /\ Len(tr_raw_data) < 5
    /\ \E n \in 1..Len(ScannedRows) : ScannedRows[n] = LoadRows(<<MetaRow>>, CNone)[1]
    /\ tr_account_info = [opening_balance |-> CFloat(FALSE, 50000000)]

-----------------------------------------------------------------------------
(* Claims on the rows taken as transactions *)

\* the raw transactions have been extracted
RowsExtracted ==
    \/ tr_pc \in {"extracted", "standardized"}
    \/ tr_pc = "done" /\ tr_result.success

\* the positions (1-based) of a row of the sheet where the header row has a
\* label and the row a cell that holds something
LabelledCells(header, row) ==
    {j \in 1..Len(header) :
        header[j] # CAbsent /\ Truthy(header[j]) /\ j <= Len(row) /\ row[j] # CAbsent}

\* the row is not entirely absent, one of its cells is a date or an amount,
\* and one position has a label and a cell
IsTransactionRow(header, row) ==
    /\ \E j \in 1..Len(row) : row[j] # CAbsent
    /\ \E j \in 1..Len(row) : row[j] # CAbsent /\ (is_date(row[j]) \/ is_amount(row[j]))
    /\ LabelledCells(header, row) # {}

\* header label -> cell, for the positions where both are present
MappingOf(header, row) ==
    [label \in {PyStr(header[j]) : j \in LabelledCells(header, row)} |->
        row[CHOOSE j \in LabelledCells(header, row) : PyStr(header[j]) = label]]

\* the raw transactions of the sheet under the header row of the bound
\* profile, as the claim describes them
DescribedTransactions(sheet, header_row) ==
    LET after == [n \in 1..(Len(sheet) - header_row - 1) |-> sheet[header_row + 1 + n]]
        taken == SelectSeq(after, LAMBDA row : IsTransactionRow(sheet[header_row + 1], row))
    IN [n \in 1..Len(taken) |-> MappingOf(sheet[header_row + 1], taken[n])]

\* C20: a row after the header row becomes a raw transaction iff it is not
\* entirely absent, at least one of its cells is a date or an amount, and at
\* least one position has both a header label and a present cell; its
\* mapping holds header label -> cell for exactly the positions where both
\* are present.
C20_RowAcceptance ==
    RowsExtracted =>
        tr_transactions = DescribedTransactions(tr_file.sheet, tr_format_info.header_row)

\* the same for the files read by openpyxl, where a cell that holds nothing
\* is None in the grid
RowAcceptanceOpenpyxl ==
    (RowsExtracted /\ Lower(PathSuffix(tr_file.path)) # ".ods") =>
        tr_transactions = DescribedTransactions(tr_file.sheet, tr_format_info.header_row)

-----------------------------------------------------------------------------
(* Claims on the header row *)

\* _extract_transactions has been called
ExtractionAttempted == tr_format_info # NoValue /\ tr_pc \notin {"detected", "info"}

\* the header row index of the bound profile is the index of a row of the grid
HeaderRowInGrid ==
    tr_format_info.header_row >= 0 /\ tr_format_info.header_row < Len(tr_raw_data)

\* the labels of the row of the grid at the header row index
HeaderLabels ==
    {PyStr(tr_raw_data[tr_format_info.header_row + 1][j]) :
        j \in 1..Len(tr_raw_data[tr_format_info.header_row + 1])}

\* the extraction fails with one of the errors iff the header row index is
\* not the index of a row of the grid, and otherwise takes the keys of the
\* raw transactions from that row
HeaderRowRule(errors) ==
    ExtractionAttempted =>
        IF HeaderRowInGrid
        THEN /\ tr_error = ""
             /\ \A n \in 1..Len(tr_transactions) : DOMAIN tr_transactions[n] \subseteq HeaderLabels
        ELSE tr_error \in errors

\* C21: the extraction of the transactions fails with 'Unable to locate
\* transaction header row' for every bound profile whose header row index
\* is not a non-negative index of a row of the grid, the fixed index of a
\* registered profile (16 for FCMB, 2 for GTB) on a grid with fewer rows
\* included, and otherwise reads the header labels from that row.
C21_HeaderRowError == HeaderRowRule({"Unable to locate transaction header row"})

\* the same, with the error of the list access for an index beyond the grid
HeaderRowErrorOrIndexError ==
    HeaderRowRule({"Unable to locate transaction header row", "list index out of range"})

-----------------------------------------------------------------------------
(* Claims on the generic detection *)

\* the generic detection has bound the profile
GenericBound == tr_format_info # NoValue /\ tr_format_info.key = "GENERIC"

\* the vocabulary of header tokens
HeaderTokens ==
    {"date", "transaction", "description", "narration", "remarks", "debit", "credit",
     "withdrawal", "deposit", "balance", "amount"}

\* the cells (1-based) of a row that are text holding a header token, in
\* whatever case
TokenCells(row) ==
    {j \in 1..Len(row) :
        row[j].k = "str" /\ \E token \in HeaderTokens : Contains(Lower(row[j].s), token)}

\* the rows (0-based) among rows 0..24 with at least 4 such cells
QualifyingRows ==
    {i \in 0..24 : i < Len(tr_raw_data) /\ Cardinality(TokenCells(tr_raw_data[i + 1])) >= 4}

\* the labels the mapping of the bound profile maps
MappedLabels == {tr_format_info.mapping[k][1] : k \in 1..Len(tr_format_info.mapping)}

\* the texts of the cells of a row
TextsOf(row) == {row[j].s : j \in {n \in 1..Len(row) : row[n].k = "str"}}

\* C22: the generic detection chooses the lowest row among rows 0..24 in
\* which at least 4 cells hold a header token, in whatever case, and builds
\* the mapping from that row only: later such rows are ignored, a row 25 or
\* higher is never chosen, and with no such row the header row index is -1.
C22_FirstQualifyingRow ==
    GenericBound =>
        IF QualifyingRows = {}
        THEN tr_format_info.header_row = -1 /\ MappedLabels = {}
        ELSE /\ tr_format_info.header_row = MinOf(QualifyingRows)
             /\ MappedLabels \subseteq TextsOf(tr_raw_data[MinOf(QualifyingRows) + 1])
             /\ TextsOf(tr_raw_data[MinOf(QualifyingRows) + 1]) \cap {"Date", "Balance"}
                    \subseteq MappedLabels

\* a grid with header cells in rows 0 and 2: row 0 is chosen and no label
\* of row 2 alone is mapped
C22_Witness ==
    /\ GenericBound
    /\ QualifyingRows = {0, 2}
    /\ tr_format_info.header_row = 0
    /\ "Description" \in MappedLabels
    /\ "Narration" \notin MappedLabels

\* a text holds one of the words
HasWord(text, words) == \E w \in words : Contains(text, w)

\* the field of a header label by the first rule that matches, "" if none does
FirstRuleField(label) ==
    LET text == Lower(label)
    IN CASE HasWord(text, {"date"}) /\ HasWord(text, {"value"}) -> "Value Date"
         [] HasWord(text, {"date"}) -> "Tran Date"
         [] HasWord(text, {"description", "narration", "remarks"}) -> "Transaction Details"
         [] HasWord(text, {"debit", "withdrawal"}) -> "Debit"
         [] HasWord(text, {"credit", "deposit"}) -> "Credit"
         [] HasWord(text, {"balance"}) -> "Balance"
         [] HasWord(text, {"reference", "ref"}) -> "Ref. No"
         [] OTHER -> ""

\* the fields the mapping of the bound profile gives a label
FieldsOfLabel(label) ==
    {tr_format_info.mapping[k][2] :
        k \in {n \in 1..Len(tr_format_info.mapping) : tr_format_info.mapping[n][1] = label}}

\* every text cell of the chosen row has the field of its first matching
\* rule and no other, and none if no rule matches
MappingByFirstRule ==
    (GenericBound /\ tr_format_info.header_row >= 0) =>
        \A label \in TextsOf(tr_raw_data[tr_format_info.header_row + 1]) \ {""} :
            FieldsOfLabel(label) =
                IF FirstRuleField(label) = "" THEN {} ELSE {FirstRuleField(label)}

\* the generic profile is bound and the transactions are standardized
GenericStandardized == GenericBound /\ tr_pc \in {"standardized", "done"} /\ tr_error = ""

\* the labels of a raw transaction that the mapping gives the field
SourcesOf(field, raw) ==
    {k \in 1..Len(tr_format_info.mapping) :
        tr_format_info.mapping[k][2] = field /\ tr_format_info.mapping[k][1] \in DOMAIN raw}

\* every field of a standardized transaction that holds something has a
\* column of the mapping in the raw transaction; with fallback, Debit and
\* Credit, one of them, may come from the column 'Amount' instead
FieldsFromMapping(fallback) ==
    GenericStandardized =>
        \A n \in 1..Len(tr_standardized) : \A field \in DOMAIN tr_standardized[n] :
            Truthy(tr_standardized[n][field]) =>
                \/ SourcesOf(field, tr_transactions[n]) # {}
                \/ /\ fallback
                   /\ field \in {"Debit", "Credit"}
                   /\ "Amount" \in DOMAIN tr_transactions[n]
                   /\ ~Truthy(tr_standardized[n][IF field = "Debit" THEN "Credit" ELSE "Debit"])

\* C23: in the generic mapping each text header cell of the chosen row has
\* at most one field, that of the first matching rule (Value Date, Tran
\* Date, Transaction Details, Debit, Credit, Balance, Ref. No), and a cell
\* matching no rule is not in the mapping and its column gives no field of
\* a standardized transaction.
C23_FirstRuleOnly == MappingByFirstRule /\ FieldsFromMapping(FALSE)

\* C23 with the column 'Amount', which no rule matches, as the source of
\* Debit or Credit when the mapping produced neither
C23_FirstRuleAndAmount == MappingByFirstRule /\ FieldsFromMapping(TRUE)

\* the labels with the words of several rules are bound and a Credit comes
\* from the column 'Amount'
C23_Witness ==
    /\ GenericStandardized
    /\ FieldsOfLabel("Credit Balance") = {"Credit"}
    /\ FieldsOfLabel("Debit/Credit Remarks") = {"Transaction Details"}
    /\ FieldsOfLabel("Amount") = {}
    /\ \E n \in 1..Len(tr_standardized) :
          /\ Truthy(tr_standardized[n]["Credit"])
          /\ "Amount" \in DOMAIN tr_transactions[n]
          /\ ~GetTruthy(tr_transactions[n], "Credit Balance")

-----------------------------------------------------------------------------
(* Claims on the date function, checked under SpecDate *)

DateStandardized == d_pc \in {"standardized", "done"}

\* the shape of a rendered date: d stands for a digit
ShapeOf(target_format) == IF target_format = "YYYY-MM-DD" THEN "dddd-dd-dd" ELSE "dd/dd/dddd"

HasShape(s, shape) ==
    /\ Len(s) = Len(shape)
    /\ \A i \in 1..Len(shape) :
          IF CharAt(shape, i) = "d" THEN IsDigit(CharAt(s, i)) ELSE CharAt(s, i) = CharAt(shape, i)

\* a value the date function has no date for: text that is no calendar
\* date, a number that is no serial date, NaN, an infinity
NoDateIn(v) ==
    \/ v.k = "str" /\ ToDatetime(v.s) = NaT
    \/ v.k \in {"int", "float"} /\ (v.neg \/ v.mag <= 1000000)
    \/ v.k \in {"nan", "inf"}

\* with `empties` the values taken as empty or absent: these give '', every
\* other value gives a text that is not empty, the text of the value itself
\* when it has no date and the date in the target shape when it has one
DateRule(empties) ==
    DateStandardized =>
        /\ d_out.k = "str"
        /\ IF d_in \in empties THEN d_out.s = ""
           ELSE /\ d_out.s # ""
                /\ NoDateIn(d_in) => d_out.s = PyStr(d_in)
                /\ (d_in.k = "dt" \/ (d_in.k = "str" /\ ~NoDateIn(d_in)))
                      => HasShape(d_out.s, ShapeOf(d_target))

\* C24: the date function never raises; an empty or absent value gives '',
\* text that is no date and values of a kind it cannot convert give the text
\* of the value unchanged, a value that is not empty never gives an empty
\* result, and a parsed date has the target shape (DD/MM/YYYY for a target
\* it does not know).
C24_DateNeverEmpty == DateRule({CNone, CStr("")})

\* C24 with the numbers 0 and 0.0 taken as empty
DateNeverEmptyButZero == DateRule({CNone, CStr(""), CInt(FALSE, 0), CFloat(FALSE, 0)})

\* the day count from 1899-12-30 of a date rendered in the target shape
RenderedDay(s, target_format) ==
    LET y == StrToNat(IF target_format = "YYYY-MM-DD" THEN SubSeq(s, 1, 4) ELSE SubSeq(s, 7, 10))
        m == StrToNat(IF target_format = "YYYY-MM-DD" THEN SubSeq(s, 6, 7)
                      ELSE IF target_format = "MM/DD/YYYY" THEN SubSeq(s, 1, 2)
                      ELSE SubSeq(s, 4, 5))
        d == StrToNat(IF target_format = "YYYY-MM-DD" THEN SubSeq(s, 9, 10)
                      ELSE IF target_format = "MM/DD/YYYY" THEN SubSeq(s, 4, 5)
                      ELSE SubSeq(s, 1, 2))
    IN Ordinal(y, m, d) - Ordinal(1899, 12, 30)

\* the result is the day that lies the whole days of d_in after 1899-12-30,
\* which is 1900-01-01 plus those days less 2
IsSerialDay ==
    /\ HasShape(d_out.s, ShapeOf(d_target))
    /\ RenderedDay(d_out.s, d_target) = d_in.mag \div 1000
    /\ RenderedDay(d_out.s, d_target) + Ordinal(1899, 12, 30)
          = Ordinal(1900, 1, 1) + d_in.mag \div 1000 - 2

\* numbers above 1000 and up to `most` give their serial day, numbers of
\* 1000 or less give their text, those in `empties` give ''
SerialRule(most, empties) ==
    (DateStandardized /\ d_in.k \in {"int", "float"}) =>
        IF d_in \in empties THEN d_out.s = ""
        ELSE IF ~d_in.neg /\ d_in.mag > 1000000 /\ (most >= 0 => d_in.mag \div 1000 <= most)
        THEN IsSerialDay
        ELSE d_out.s = PyStr(d_in)

\* C25: a numeric date cell n greater than 1000 is converted to the day
\* that lies n days after 1899-12-30 (1900-01-01 plus n-2 days), and a
\* number of 1000 or less is returned as its text.
C25_SerialDates == SerialRule(-1, {})

\* C25 for the serial numbers a pd.Timedelta holds, with 0 and 0.0 giving ''
SerialDatesInRange == SerialRule(MaxTimedeltaDays + 2, {CInt(FALSE, 0), CFloat(FALSE, 0)})

-----------------------------------------------------------------------------
(* Claims on the Debit/Credit logic, checked under SpecStd *)

\* C26: _handle_debit_credit_logic never changes a Debit or Credit that
\* holds something already, and it is idempotent: called again on its own
\* result with the same raw transaction it changes nothing.
C26_DebitCreditIdempotent ==
    /\ s_pc \in {"done", "again"} =>
          \A f \in {"Debit", "Credit"} : Truthy(s_filled[f]) => s_out[f] = s_filled[f]
    /\ s_pc = "again" =>
          /\ s_out2 = s_out
          /\ \A f \in {"Debit", "Credit"} : Truthy(s_out[f]) => s_out2[f] = s_out[f]

\* the second call, after a first one that took the Amount column and after
\* one that found a Debit
C26_Witness ==
    /\ s_pc = "again"
    /\ "Amount" \in DOMAIN s_txn
    /\ \/ ~Truthy(s_filled["Debit"]) /\ ~Truthy(s_filled["Credit"]) /\ Truthy(s_out["Debit"])
       \/ Truthy(s_filled["Debit"]) /\ s_out["Credit"] = CStr("")

\* the mapping loop left Debit and Credit empty
NoDebitNoCredit == ~Truthy(s_filled["Debit"]) /\ ~Truthy(s_filled["Credit"])

\* Debit and Credit of the standardized transaction are ''
BothEmpty == s_out["Debit"] = CStr("") /\ s_out["Credit"] = CStr("")

\* C27: an empty text in the Amount column never gives '0.00': when the
\* Amount of the raw transaction is '' and the mapping produced no Debit and
\* no Credit, Debit and Credit of the standardized transaction stay empty.
C27_EmptyAmountStaysEmpty ==
    (/\ s_pc \in {"done", "again"}
     /\ "Amount" \in DOMAIN s_txn
     /\ s_txn["Amount"] = CStr("")
     /\ NoDebitNoCredit) => BothEmpty

\* without an Amount cell in the raw transaction they stay empty, and with
\* the Amount '' the Credit is '0.00'
EmptyAmountGivesZero ==
    (s_pc \in {"done", "again"} /\ NoDebitNoCredit) =>
        /\ "Amount" \notin DOMAIN s_txn => BothEmpty
        /\ ("Amount" \in DOMAIN s_txn /\ s_txn["Amount"] = CStr(""))
              => s_out["Debit"] = CStr("") /\ s_out["Credit"] = CStr("0.00")

-----------------------------------------------------------------------------
(* Claims on text dates, checked under SpecDate *)

\* d_in is a DD/MM/YYYY text of a valid day and month, the target is the
\* default one
ValidDayMonthText ==
    /\ d_in.k = "str"
    /\ d_in.s \in DayMonthTexts
    /\ ValidDate(StrToNat(SubSeq(d_in.s, 7, 10)), StrToNat(SubSeq(d_in.s, 4, 5)),
                 StrToNat(SubSeq(d_in.s, 1, 2)))
    /\ d_target = "DD/MM/YYYY"

DayOfText == StrToNat(SubSeq(d_in.s, 1, 2))
MonthOfText == StrToNat(SubSeq(d_in.s, 4, 5))

\* C28: with the default target a text date in DD/MM/YYYY form is mapped to
\* itself for every valid day and month, days of 12 or less included (day
\* and month are never swapped), so standardizing a standardized date again
\* changes nothing.
C28_DayMonthKept ==
    ValidDayMonthText =>
        /\ DateStandardized => d_out.s = d_in.s
        /\ d_pc = "done" => d_out2 = d_out

\* a day above 12 is kept; a day of 12 or less is read as the month, and a
\* second call swaps the two back
DayMonthSwapped ==
    ValidDayMonthText =>
        /\ DateStandardized =>
              d_out.s = IF DayOfText > 12 THEN d_in.s
                        ELSE Pad(MonthOfText, 2) \o "/" \o Pad(DayOfText, 2) \o SubSeq(d_in.s, 6, 10)
        /\ d_pc = "done" => d_out2.s = d_in.s

-----------------------------------------------------------------------------
(* Claims on the output files of a request, checked under SpecBatch *)

\* the entries of the results that report an output file
ReportedEntries == {i \in 1..Len(b_results) : "output_file" \in DOMAIN b_results[i]}

\* the download of the output file of entry i holds the transactions of
\* that entry
HoldsOwnTransactions(i) ==
    /\ download_file(b_results[i].output_file, b_folder).ok
    /\ IsTransactionsSheet(download_file(b_results[i].output_file, b_folder).value["Transactions"],
                           b_results[i].transactions)

\* C29: two uploaded files with equal sanitized names each get their own
\* output: the output_file of a successful entry always holds the
\* transactions of that entry's own input and no other file's output
\* overwrites it.
C29_OwnOutputFile == \A i \in ReportedEntries : HoldsOwnTransactions(i)

\* the same for the last entry of each output file name
OwnOutputFileOfLast ==
    \A i \in ReportedEntries :
        (\A j \in ReportedEntries : j > i => b_results[j].output_file # b_results[i].output_file)
            => HoldsOwnTransactions(i)

=============================================================================
